---- MODULE Spec2Model ----
(***************************************************************************)
(* Optima-SEO content pipeline: semantic classification of fields          *)
(* (semanticClassifier.ts), extraction of semantic items from the          *)
(* component tree (contentParser.ts), the content scanner with its         *)
(* readability metric (seoScanner.ts) and the scorer / issue detector      *)
(* (seoScorer.ts).                                                         *)
(*                                                                         *)
(* JavaScript strings are modelled as sequences of one-character strings,  *)
(* so that trimming, case folding, regular expressions and replacement     *)
(* are computed character by character as the code computes them.          *)
(* A value that the code computes once and then uses several times is      *)
(* passed as the parameter of a local operator.                            *)
(* Category names, declared field types and template names are only used   *)
(* as whole keys by the code and are kept as TLA+ strings.                 *)
(***************************************************************************)
EXTENDS Integers, Sequences, FiniteSets, TLC

VARIABLES
  pc,            \* position in the pipeline run being modelled
  fieldName,     \* classifyField argument
  fieldValue,    \* classifyField argument
  fieldType,     \* classifyField optional argument
  templateName,  \* classifyField optional argument
  category,      \* value returned by classifyField
  pageContent,   \* PageContent: page name and canonical component tree
  semanticItems, \* SemanticTextItem[] produced by the extractor
  pageData,      \* PageData produced by scanPageContent
  scanResult,    \* ScanResult produced by computeSEOScore
  datasourceField, \* convertDatasourceFieldToComponentField argument
  fieldInfo,     \* FieldInfo or null that the conversion returns
  pagesContext,  \* PagesContext given to extractPageContentFromContext
  searchBox      \* state of a mounted SearchBox, its timer and its onSearch calls

vars == <<pc, fieldName, fieldValue, fieldType, templateName, category,
          pageContent, semanticItems, pageData, scanResult, datasourceField,
          fieldInfo, pagesContext, searchBox>>

\* JavaScript undefined or null where a category, a declared type or a
\* template name is expected (these are kept as TLA+ strings)
Undefined == "$undefined"

\* JavaScript undefined where a string modelled by its characters is expected
Absent == <<"$undefined">>

\* placeholder for a variable that the specification at hand does not use
Idle == "$idle"

-----------------------------------------------------------------------------
(* Strings                                                                 *)

UpperLetters == <<"A","B","C","D","E","F","G","H","I","J","K","L","M","N","O","P","Q","R","S","T","U","V","W","X","Y","Z">>
LowerLetters == <<"a","b","c","d","e","f","g","h","i","j","k","l","m","n","o","p","q","r","s","t","u","v","w","x","y","z">>

Range(f) == {f[i] : i \in DOMAIN f}

Digits == Range(<<"0","1","2","3","4","5","6","7","8","9">>)

\* String.prototype.toLowerCase on one character
ToLowerChar(c) ==
  IF \E i \in 1..26 : UpperLetters[i] = c
    THEN LowerLetters[CHOOSE i \in 1..26 : UpperLetters[i] = c]
    ELSE c

\* String.prototype.toLowerCase
ToLower(s) == [i \in 1..Len(s) |-> ToLowerChar(s[i])]

\* the characters matched by \s and removed by trim()
WhiteSpace == {" ", "\t", "\n", "\r", "\f"}

\* the number of white space characters at the start of s, from index i on
RECURSIVE LeadingSpace(_, _)
LeadingSpace(s, i) ==
  IF i > Len(s) \/ s[i] \notin WhiteSpace THEN 0 ELSE 1 + LeadingSpace(s, i + 1)

\* the number of white space characters at the end of s, from index i down
RECURSIVE TrailingSpace(_, _)
TrailingSpace(s, i) ==
  IF i < 1 \/ s[i] \notin WhiteSpace THEN 0 ELSE 1 + TrailingSpace(s, i - 1)

\* String.prototype.trim
Trim(s) ==
  IF LeadingSpace(s, 1) = Len(s) THEN <<>>
  ELSE SubSeq(s, LeadingSpace(s, 1) + 1, Len(s) - TrailingSpace(s, Len(s)))

\* String.prototype.startsWith
StartsWith(s, p) == Len(p) <= Len(s) /\ SubSeq(s, 1, Len(p)) = p

\* String.prototype.endsWith
EndsWith(s, p) == Len(p) <= Len(s) /\ SubSeq(s, Len(s) - Len(p) + 1, Len(s)) = p

\* String.prototype.includes
Includes(s, p) == \E i \in 0..(Len(s) - Len(p)) : SubSeq(s, i + 1, i + Len(p)) = p

\* String.prototype.substring(0, n)
Substring0(s, n) == SubSeq(s, 1, IF n < Len(s) THEN n ELSE Len(s))

\* 'c'.repeat(n)
Repeat(c, n) == [i \in 1..n |-> c]

\* Array.prototype.join(sep) on an array of strings
RECURSIVE Join(_, _)
Join(parts, sep) ==
  IF Len(parts) = 0 THEN <<>>
  ELSE IF Len(parts) = 1 THEN parts[1]
  ELSE parts[1] \o sep \o Join(Tail(parts), sep)

SetMax(S) == CHOOSE x \in S : \A y \in S : y <= x
SetMin(S) == CHOOSE x \in S : \A y \in S : x <= y

-----------------------------------------------------------------------------
(* Regular expressions.  A pattern is a tuple whose first element names    *)
(* the construct.  Ends(r, s, p) is the set of offsets at which a match of *)
(* r that starts at offset p of s can end; an offset p means that p        *)
(* characters of s lie before it.                                          *)

Lit(str)   == <<"lit", str>>
Cls(S)     == <<"cls", S, FALSE>>
NotCls(S)  == <<"cls", S, TRUE>>
Cat(rs)    == <<"cat", rs>>
Alt(rs)    == <<"alt", rs>>
Star(r)    == <<"star", r>>
Plus(r)    == <<"plus", r>>
Opt(r)     == <<"opt", r>>
Bol        == <<"bol">>
Eol        == <<"eol">>
\* . matches everything but a line terminator
Dot        == NotCls({"\n", "\r"})
\* \s
Space      == Cls(WhiteSpace)
\* \d
Digit      == Cls(Digits)
\* [\s\S]
AnyChar    == NotCls({})

RECURSIVE Ends(_, _, _)
RECURSIVE CatEnds(_, _, _, _)
RECURSIVE StarEnds(_, _, _, _)

\* whether the character class r matches the character c
InClass(r, c) == (c \in r[2]) # r[3]

\* the offsets at which a run of characters of the class r that starts at
\* offset p can end, the empty run included
ClassRun(r, s, p) ==
  {q \in p..Len(s) : \A k \in (p + 1)..q : InClass(r, s[k])}

Ends(r, s, p) ==
  CASE r[1] = "lit"  -> IF /\ p + Len(r[2]) <= Len(s)
                           /\ \A k \in 1..Len(r[2]) : s[p + k] = r[2][k]
                          THEN {p + Len(r[2])} ELSE {}
    [] r[1] = "cls"  -> IF p < Len(s) /\ InClass(r, s[p + 1])
                          THEN {p + 1} ELSE {}
    [] r[1] = "bol"  -> IF p = 0 THEN {p} ELSE {}
    [] r[1] = "eol"  -> IF p = Len(s) THEN {p} ELSE {}
    [] r[1] = "cat"  -> CatEnds(r[2], 1, s, {p})
    [] r[1] = "alt"  -> UNION {Ends(r[2][k], s, p) : k \in 1..Len(r[2])}
    [] r[1] = "opt"  -> {p} \cup Ends(r[2], s, p)
    [] r[1] = "star" -> IF r[2][1] = "cls" THEN ClassRun(r[2], s, p)
                        ELSE StarEnds(r[2], s, {p}, {p})
    [] r[1] = "plus" -> IF r[2][1] = "cls" THEN ClassRun(r[2], s, p) \ {p}
                        ELSE LET first == Ends(r[2], s, p)
                             IN  StarEnds(r[2], s, first, first)

CatEnds(rs, k, s, P) ==
  IF k > Len(rs) \/ P = {} THEN P
  ELSE CatEnds(rs, k + 1, s, UNION {Ends(rs[k], s, q) : q \in P})

StarEnds(r, s, frontier, acc) ==
  LET new == (UNION {Ends(r, s, q) : q \in frontier}) \ acc
  IN  IF new = {} THEN acc ELSE StarEnds(r, s, new, acc \cup new)

\* RegExp.prototype.test; ci is the i flag (the patterns are written in lower case)
Test(r, s, ci) ==
  LET t == IF ci THEN ToLower(s) ELSE s
  IN  \E p \in 0..Len(t) : Ends(r, t, p) # {}

\* the offsets from p on at which a non-empty match of r starts in t
MatchStarts(r, t, p) == {q \in p..Len(t) : Ends(r, t, q) \ {q} # {}}

\* String.prototype.replace(/r/g, rep) for a pattern that matches no empty
\* string: scan left to right, replace the match at the leftmost offset and
\* continue after it.  greedy tells whether the pattern's quantifier takes
\* the longest (greedy) or the shortest (lazy) match; ci is the i flag.
RECURSIVE ReplaceFrom(_, _, _, _, _, _)
ReplaceFrom(r, s, t, rep, greedy, p) ==
  LET Resume(E) ==
        ReplaceFrom(r, s, t, rep, greedy, IF greedy THEN SetMax(E) ELSE SetMin(E))
      At(q) == SubSeq(s, p + 1, q) \o rep \o Resume(Ends(r, t, q) \ {q})
      From(starts) ==
        IF starts = {} THEN SubSeq(s, p + 1, Len(s)) ELSE At(SetMin(starts))
  IN  From(MatchStarts(r, t, p))

ReplaceAll(r, s, rep, greedy, ci) ==
  ReplaceFrom(r, s, IF ci THEN ToLower(s) ELSE s, rep, greedy, 0)

\* String.prototype.split(/r/) for a greedy pattern that matches no empty
\* string; empty parts are kept, as split keeps them
RECURSIVE SplitFrom(_, _, _)
SplitFrom(r, s, p) ==
  LET At(q) ==
        <<SubSeq(s, p + 1, q)>> \o SplitFrom(r, s, SetMax(Ends(r, s, q) \ {q}))
      From(starts) ==
        IF starts = {} THEN <<SubSeq(s, p + 1, Len(s))>> ELSE At(SetMin(starts))
  IN  From(MatchStarts(r, s, p))

Split(r, s) == SplitFrom(r, s, 0)

-----------------------------------------------------------------------------
(* semanticClassifier.ts                                                   *)

\* SemanticCategory, in the order the semanticCategories array lists them
SemanticCategories ==
  <<"Heading", "Paragraph", "RichText", "Label", "Link", "Button", "Image",
    "List", "Other">>

CategorySet == Range(SemanticCategories)

\* the order of the keys of the FIELD_PATTERNS object literal
FieldPatternOrder ==
  <<"Heading", "Paragraph", "RichText", "Label", "Link", "Button", "Image",
    "List", "Other">>

\* FIELD_PATTERNS: every pattern carries the i flag
FIELD_PATTERNS(cat) ==
  CASE cat = "Heading" ->
         << Cat(<<Bol, Alt(<<Lit(<<"t","i","t","l","e">>), Lit(<<"h","e","a","d","i","n","g">>), Lit(<<"h","e","a","d","e","r">>),
                             Cat(<<Lit(<<"h">>), Cls(Range(<<"1","2","3","4","5","6">>))>>),
                             Lit(<<"p","a","g","e","t","i","t","l","e">>), Lit(<<"s","e","c","t","i","o","n","t","i","t","l","e">>)>>), Eol>>),
            Cat(<<Lit(<<"t","i","t","l","e">>), Eol>>),
            Cat(<<Lit(<<"h","e","a","d","i","n","g">>), Eol>>) >>
    [] cat = "Paragraph" ->
         << Cat(<<Bol, Alt(<<Lit(<<"t","e","x","t">>), Lit(<<"c","o","n","t","e","n","t">>), Lit(<<"b","o","d","y">>),
                             Lit(<<"d","e","s","c","r","i","p","t","i","o","n">>), Lit(<<"p","a","r","a","g","r","a","p","h">>), Lit(<<"c","o","p","y">>),
                             Lit(<<"s","u","m","m","a","r","y">>), Lit(<<"i","n","t","r","o">>)>>), Eol>>),
            Cat(<<Lit(<<"t","e","x","t">>), Eol>>),
            Cat(<<Lit(<<"d","e","s","c","r","i","p","t","i","o","n">>), Eol>>),
            Cat(<<Lit(<<"c","o","n","t","e","n","t">>), Eol>>) >>
    [] cat = "RichText" ->
         << Cat(<<Bol, Alt(<<Lit(<<"r","i","c","h","t","e","x","t">>), Lit(<<"h","t","m","l">>), Lit(<<"m","a","r","k","u","p">>),
                             Lit(<<"f","o","r","m","a","t","t","e","d","t","e","x","t">>), Lit(<<"w","y","s","i","w","y","g">>),
                             Lit(<<"e","d","i","t","o","r">>)>>), Eol>>),
            Cat(<<Lit(<<"r","i","c","h","t","e","x","t">>), Eol>>) >>
    [] cat = "Label" ->
         << Cat(<<Bol, Alt(<<Lit(<<"l","a","b","e","l">>), Lit(<<"n","a","m","e">>), Lit(<<"c","a","p","t","i","o","n">>),
                             Lit(<<"t","a","g">>), Lit(<<"b","a","d","g","e">>), Lit(<<"c","a","t","e","g","o","r","y">>),
                             Lit(<<"t","y","p","e">>)>>), Eol>>),
            Cat(<<Lit(<<"l","a","b","e","l">>), Eol>>),
            Cat(<<Lit(<<"n","a","m","e">>), Eol>>) >>
    [] cat = "Link" ->
         << Cat(<<Bol, Alt(<<Lit(<<"l","i","n","k">>), Lit(<<"u","r","l">>), Lit(<<"h","r","e","f">>), Lit(<<"c","t","a">>),
                             Lit(<<"a","c","t","i","o","n">>), Lit(<<"n","a","v","i","g","a","t","i","o","n">>),
                             Lit(<<"a","n","c","h","o","r">>)>>), Eol>>),
            Cat(<<Bol, Lit(<<"l","i","n","k">>), Star(Digit), Eol>>),
            Cat(<<Lit(<<"l","i","n","k">>), Eol>>),
            Cat(<<Lit(<<"u","r","l">>), Eol>>) >>
    [] cat = "Button" ->
         << Cat(<<Bol, Alt(<<Lit(<<"b","u","t","t","o","n">>), Lit(<<"c","t","a">>), Lit(<<"a","c","t","i","o","n">>),
                             Lit(<<"s","u","b","m","i","t">>),
                             Cat(<<Lit(<<"c","a","l","l">>), Star(Dot), Lit(<<"a","c","t","i","o","n">>)>>)>>),
                  Eol>>),
            Cat(<<Bol, Lit(<<"b","u","t","t","o","n">>), Star(Digit), Eol>>),
            Cat(<<Lit(<<"b","u","t","t","o","n">>), Eol>>),
            Cat(<<Lit(<<"c","t","a">>), Eol>>) >>
    [] cat = "Image" ->
         << Cat(<<Bol, Alt(<<Lit(<<"i","m","a","g","e">>), Lit(<<"i","m","g">>), Lit(<<"p","i","c","t","u","r","e">>),
                             Lit(<<"p","h","o","t","o">>), Lit(<<"t","h","u","m","b","n","a","i","l">>), Lit(<<"b","a","n","n","e","r">>),
                             Lit(<<"i","c","o","n">>), Lit(<<"m","e","d","i","a">>)>>), Eol>>),
            Cat(<<Lit(<<"i","m","a","g","e">>), Eol>>),
            Cat(<<Lit(<<"i","m","g">>), Eol>>) >>
    [] cat = "List" ->
         << Cat(<<Bol, Alt(<<Lit(<<"l","i","s","t">>), Lit(<<"i","t","e","m","s">>), Lit(<<"c","o","l","l","e","c","t","i","o","n">>),
                             Lit(<<"a","r","r","a","y">>), Lit(<<"m","e","n","u">>), Lit(<<"o","p","t","i","o","n","s">>)>>), Eol>>),
            Cat(<<Lit(<<"l","i","s","t">>), Eol>>),
            Cat(<<Lit(<<"i","t","e","m","s">>), Eol>>) >>
    [] OTHER -> << >>

\* the order of the keys of the CONTENT_PATTERNS object literal
ContentPatternOrder ==
  <<"Heading", "RichText", "Link", "Button", "Image", "Paragraph", "Label",
    "List", "Other">>

\* <h[1-6]
HeadingTagOpen == Cat(<<Lit(<<"<","h">>), Cls(Range(<<"1","2","3","4","5","6">>))>>)

\* [a-z0-9\-\/] under the i flag
PathChar == Cls(Range(LowerLetters) \cup Digits \cup {"-", "/"})

\* https?:\/\/
HttpScheme == Cat(<<Lit(<<"h","t","t","p">>), Opt(Lit(<<"s">>)), Lit(<<":","/","/">>)>>)

\* CONTENT_PATTERNS: each pattern with its i flag
CONTENT_PATTERNS(cat) ==
  CASE cat = "Heading" ->
         << <<Cat(<<Bol, HeadingTagOpen, Star(NotCls({">"})), Lit(<<">">>),
                    Star(Dot), Lit(<<"<","/","h">>), Cls(Range(<<"1","2","3","4","5","6">>)), Lit(<<">">>),
                    Eol>>), TRUE>> >>
    [] cat = "RichText" ->
         << <<Cat(<<Lit(<<"<">>), Plus(NotCls({">"})), Lit(<<">">>)>>), FALSE>>,
            <<Alt(<<Lit(<<"&","n","b","s","p",";">>), Lit(<<"&","l","t",";">>), Lit(<<"&","g","t",";">>), Lit(<<"&","a","m","p",";">>)>>),
              FALSE>> >>
    [] cat = "Link" ->
         << <<Cat(<<Bol, HttpScheme>>), TRUE>>,
            <<Cat(<<Bol, Lit(<<"/">>), Plus(PathChar), Eol>>), TRUE>>,
            <<Cat(<<Lit(<<"[">>), HttpScheme, Plus(NotCls({"]"})), Lit(<<"]">>)>>), TRUE>>,
            <<Cat(<<Lit(<<"[">>), Plus(NotCls({"]"})), Lit(<<"]">>)>>), TRUE>> >>
    [] cat = "Button" ->
         << <<Cat(<<Bol,
                    Alt(<<Lit(<<"b","u","y">>), Lit(<<"l","e","a","r","n"," ","m","o","r","e">>), Lit(<<"r","e","a","d"," ","m","o","r","e">>),
                          Lit(<<"g","e","t"," ","s","t","a","r","t","e","d">>), Lit(<<"s","i","g","n"," ","u","p">>), Lit(<<"s","u","b","s","c","r","i","b","e">>),
                          Lit(<<"d","o","w","n","l","o","a","d">>), Lit(<<"s","h","o","p"," ","n","o","w">>), Lit(<<"a","d","d"," ","t","o"," ","c","a","r","t">>),
                          Lit(<<"c","h","e","c","k","o","u","t">>)>>),
                    Opt(Cat(<<Plus(Space), Lit(<<"[">>), Star(Dot), Lit(<<"]">>)>>)),
                    Eol>>), TRUE>> >>
    [] cat = "Image" ->
         << <<Cat(<<Lit(<<".">>),
                    Alt(<<Lit(<<"j","p","g">>), Lit(<<"j","p","e","g">>), Lit(<<"p","n","g">>), Lit(<<"g","i","f">>),
                          Lit(<<"s","v","g">>), Lit(<<"w","e","b","p">>), Lit(<<"b","m","p">>)>>),
                    Opt(Cat(<<Lit(<<"?">>), Star(Dot)>>)),
                    Eol>>), TRUE>> >>
    [] OTHER -> << >>

\* the own keys of the TEMPLATE_PATTERNS object literal
TemplateKeys ==
  {"Heading", "Text", "Rich Text", "Link", "Image", "Button", "List"}

\* the value stored under an own key of TEMPLATE_PATTERNS
TemplateValue(key) ==
  CASE key = "Heading"   -> "Heading"
    [] key = "Text"      -> "Paragraph"
    [] key = "Rich Text" -> "RichText"
    [] key = "Link"      -> "Link"
    [] key = "Image"     -> "Image"
    [] key = "Button"    -> "Button"
    [] key = "List"      -> "List"

\* The tables are plain object literals, so obj[key] also finds the members
\* that every object inherits from Object.prototype; each of them is a
\* function (or, for __proto__, the prototype object): truthy, and no string.
ObjectPrototypeKeys ==
  {"constructor", "toString", "toLocaleString", "valueOf", "hasOwnProperty",
   "isPrototypeOf", "propertyIsEnumerable", "__proto__"}

\* what obj[key] yields for an inherited member: the member itself
InheritedMember(key) == "Object.prototype." \o key

\* TEMPLATE_PATTERNS[templateName]
TEMPLATE_PATTERNS(key) ==
  IF key \in TemplateKeys THEN TemplateValue(key)
  ELSE IF key \in ObjectPrototypeKeys THEN InheritedMember(key)
  ELSE Undefined

\* the own keys of typeMap
TypeMapKeys ==
  {"Single-Line Text", "Multi-Line Text", "Rich Text", "General Link", "Image",
   "Droplink", "Droptree", "Checklist", "Multilist", "Treelist"}

\* typeMap[fieldType]
typeMap(key) ==
  CASE key \in {"Single-Line Text", "Droplink", "Droptree"} -> "Label"
    [] key = "Multi-Line Text" -> "Paragraph"
    [] key = "Rich Text"       -> "RichText"
    [] key = "General Link"    -> "Link"
    [] key = "Image"           -> "Image"
    [] key \in {"Checklist", "Multilist", "Treelist"} -> "List"
    [] key \in ObjectPrototypeKeys -> InheritedMember(key)
    [] OTHER -> Undefined

\* mapFieldTypeToCategory: typeMap[fieldType] || 'Other'
mapFieldTypeToCategory(type) ==
  IF typeMap(type) = Undefined THEN "Other" ELSE typeMap(type)

\* the first category of order, from index k on, one of whose patterns
\* (given by pats, skipping the categories in skip) matches s; none if no
\* category matches
RECURSIVE FirstMatch(_, _, _, _, _, _)
FirstMatch(order, k, skip, s, field, none) ==
  IF k > Len(order) THEN none
  ELSE LET Hit(cat, pats) ==
             /\ cat \notin skip
             /\ \E i \in 1..Len(pats) :
                  Test(IF field THEN pats[i] ELSE pats[i][1], s,
                       field \/ pats[i][2])
           At(cat) ==
             IF Hit(cat, IF field THEN FIELD_PATTERNS(cat)
                         ELSE CONTENT_PATTERNS(cat))
               THEN cat
             ELSE FirstMatch(order, k + 1, skip, s, field, none)
       IN  At(order[k])

\* classifyFieldName
classifyFieldName(name) ==
  FirstMatch(FieldPatternOrder, 1, {"Other"}, name, TRUE, "Other")

\* a variant of classifyContent that follows the order of the table alone
classifyContent_tableOrder(content) ==
  IF Len(content) = 0 \/ Len(Trim(content)) = 0 THEN Undefined
  ELSE FirstMatch(ContentPatternOrder, 1, {"Other", "Paragraph", "Label"},
                  content, FALSE, Undefined)

\* classifyContent; null is modelled by Undefined
classifyContent(content) ==
  LET Hit(pats) ==
        \E i \in 1..Len(pats) : Test(pats[i][1], content, pats[i][2])
  IN
  IF Len(content) = 0 \/ Len(Trim(content)) = 0 THEN Undefined
  ELSE IF Hit(CONTENT_PATTERNS("Button")) THEN "Button"
  ELSE FirstMatch(ContentPatternOrder, 1,
                  {"Other", "Paragraph", "Label", "Button"}, content, FALSE,
                  Undefined)

\* the threshold of the length heuristic that separates Label from Paragraph
LabelMaxLength == 50

\* a variant of the lower tiers in which the content never overrides the name
classifyByNameAndContent_nameFirst(name, value) ==
  LET Decide(nameCategory, contentCategory) ==
        IF nameCategory # "Other" THEN nameCategory
          ELSE IF contentCategory # Undefined THEN contentCategory
          ELSE IF Len(value) > LabelMaxLength THEN "Paragraph"
          ELSE "Label"
  IN  Decide(classifyFieldName(name), classifyContent(value))

\* a variant of the lower tiers whose length heuristic starts at the threshold
classifyByNameAndContent_fromThreshold(name, value) ==
  LET Decide(nameCategory, contentCategory) ==
        IF nameCategory # "Other"
            THEN IF nameCategory \in {"Link", "Button"} THEN nameCategory
                 ELSE IF contentCategory = "RichText" THEN "RichText"
                 ELSE nameCategory
          ELSE IF contentCategory # Undefined THEN contentCategory
          ELSE IF Len(value) >= LabelMaxLength THEN "Paragraph"
          ELSE "Label"
  IN  Decide(classifyFieldName(name), classifyContent(value))

\* the tiers of classifyField below the template and the declared type
classifyByNameAndContent(name, value) ==
  LET Decide(nameCategory, contentCategory) ==
        IF nameCategory # "Other"
            THEN IF nameCategory \in {"Link", "Button"} THEN nameCategory
                 ELSE IF contentCategory = "RichText" THEN "RichText"
                 ELSE nameCategory
          ELSE IF contentCategory \in {"Link", "Button"} THEN contentCategory
          ELSE IF contentCategory # Undefined THEN contentCategory
          ELSE IF Len(value) > LabelMaxLength THEN "Paragraph"
          ELSE "Label"
  IN  Decide(classifyFieldName(name), classifyContent(value))

\* the declared-type tier of classifyField
classifyByType(name, value, type) ==
  LET Mapped(typeCategory) ==
        IF typeCategory # "Other" THEN typeCategory
        ELSE classifyByNameAndContent(name, value)
  IN  IF type \notin {Undefined, ""} /\ type \in CategorySet THEN type
      ELSE Mapped(IF type \notin {Undefined, ""}
                    THEN mapFieldTypeToCategory(type)
                  ELSE "Other")

\* classifyField
classifyField(name, value, type, template) ==
  IF template \notin {Undefined, ""} /\ TEMPLATE_PATTERNS(template) # Undefined
    THEN TEMPLATE_PATTERNS(template)
  ELSE classifyByType(name, value, type)

-----------------------------------------------------------------------------
(* Classification of one field: classifyField applied to its arguments     *)

\* field names: the names of the unit tests and names of each pattern group
FieldNameInputs ==
  { <<"T","i","t","l","e">>, <<"P","a","g","e","T","i","t","l","e">>, <<"H","1">>, <<"T","e","x","t">>, <<"D","e","s","c","r","i","p","t","i","o","n">>, <<"R","i","c","h","T","e","x","t">>,
    <<"F","o","r","m","a","t","t","e","d","T","e","x","t">>, <<"H","T","M","L">>, <<"L","a","b","e","l">>, <<"L","i","n","k">>, <<"L","i","n","k","2">>, <<"C","T","A">>, <<"C","t","a","B","u","t","t","o","n">>,
    <<"C","a","l","l"," ","T","o"," ","A","c","t","i","o","n">>, <<"I","m","a","g","e">>, <<"I","t","e","m","s">>, <<"U","n","k","n","o","w","n","F","i","e","l","d">>, <<"C","u","s","t","o","m","D","a","t","a">>, <<>> }

\* field values: one for each content pattern, plain text at the lengths
\* around the thresholds, and empty values
FieldValueInputs ==
  { <<"S","o","m","e"," ","h","e","a","d","i","n","g"," ","t","e","x","t">>, <<"<","p",">","H","T","M","L"," ","c","o","n","t","e","n","t","<","/","p",">">>, <<"<","h","1",">","H","e","a","d","i","n","g","<","/","h","1",">">>,
    <<"T","e","x","t"," ","w","i","t","h"," ","&","n","b","s","p",";"," ","e","n","t","i","t","i","e","s">>, <<"h","t","t","p","s",":","/","/","e","x","a","m","p","l","e",".","c","o","m">>, <<"/","r","e","l","a","t","i","v","e","/","p","a","t","h">>,
    <<"i","m","a","g","e",".","j","p","g">>, <<"L","e","a","r","n"," ","M","o","r","e">>, <<"R","e","a","d"," ","m","o","r","e"," ","[","h","t","t","p",":","/","/","#","]">>, <<"H","o","m","e"," ","[","/","h","o","m","e","]">>,
    <<"h","t","t","p","s",":","/","/","e","x","a","m","p","l","e",".","c","o","m","/","a",".","p","n","g">>, <<"<","b",">","D","o","c","s","<","/","b",">"," ","[","/","d","o","c","s","]">>,
    <<>>, <<" "," "," ">>, Repeat("a", LabelMaxLength), Repeat("a", LabelMaxLength + 1),
    Repeat("a", 250) }

\* declared types: absent, category names, upstream type names, other strings
FieldTypeInputs ==
  { Undefined, "", "unknown", "Link", "Other", "Rich Text", "Single-Line Text",
    "Checklist", "JSON", "constructor" }

\* template names: absent, names of the table, other strings
TemplateInputs ==
  { Undefined, "", "Heading", "Text", "Page", "constructor" }

InitClassify ==
  /\ pc = "classify"
  /\ fieldName \in FieldNameInputs
  /\ fieldValue \in FieldValueInputs
  /\ fieldType \in FieldTypeInputs
  /\ templateName \in TemplateInputs
  /\ category = Idle
  /\ pageContent = Idle
  /\ semanticItems = Idle
  /\ pageData = Idle
  /\ scanResult = Idle
  /\ datasourceField = Idle
  /\ fieldInfo = Idle
  /\ pagesContext = Idle
  /\ searchBox = Idle

ClassifyField ==
  /\ pc = "classify"
  /\ category' = classifyField(fieldName, fieldValue, fieldType, templateName)
  /\ pc' = "classified"
  /\ UNCHANGED <<datasourceField, fieldInfo, pagesContext, searchBox>>
  /\ UNCHANGED <<fieldName, fieldValue, fieldType, templateName, pageContent,
                 semanticItems, pageData, scanResult>>

NextClassify == ClassifyField

SpecClassify == InitClassify /\ [][NextClassify]_vars

\* C1: whatever the field name, value, declared type and template name,
\* classifyField returns one of the nine categories.
C1_ClassificationClosed ==
  pc = "classified" => category \in CategorySet

\* C10: a template name of the template table decides the category whatever
\* the declared type, field name and value are; when the template name is not
\* in the table, a declared type that is a category name, or one that the
\* type map sends to a category other than Other, decides it whatever the
\* field name and value are.
C10_HigherTierDecides ==
  pc = "classified" =>
    IF templateName \in TemplateKeys
      THEN category = TemplateValue(templateName)
    ELSE /\ fieldType \in CategorySet => category = fieldType
         /\ (fieldType \in TypeMapKeys /\ typeMap(fieldType) # "Other")
              => category = typeMap(fieldType)

-----------------------------------------------------------------------------
(* semanticClassifier.ts: plain text and semantic items                    *)

\* /<script[^>]*>[\s\S]*?<\/script>/gi and /<style[^>]*>[\s\S]*?<\/style>/gi
BlockPattern(tag) ==
  Cat(<<Lit(<<"<">> \o tag), Star(NotCls({">"})), Lit(<<">">>), Star(AnyChar),
        Lit(<<"<","/">> \o tag \o <<">">>)>>)

\* /<br\s*\/?>/gi
BrPattern == Cat(<<Lit(<<"<","b","r">>), Star(Space), Opt(Lit(<<"/">>)), Lit(<<">">>)>>)

\* /<[^>]+>/g
TagPattern == Cat(<<Lit(<<"<">>), Plus(NotCls({">"})), Lit(<<">">>)>>)

\* the entities that extractPlainText decodes, in the order it decodes them
Entities ==
  << <<<<"&","n","b","s","p",";">>, <<" ">>>>, <<<<"&","l","t",";">>, <<"<">>>>, <<<<"&","g","t",";">>, <<">">>>>, <<<<"&","a","m","p",";">>, <<"&">>>>,
     <<<<"&","q","u","o","t",";">>, <<"\"">>>>, <<<<"&","#","3","9",";">>, <<"'">>>> >>

RECURSIVE DecodeEntities(_, _)
DecodeEntities(text, k) ==
  IF k > Len(Entities) THEN text
  ELSE DecodeEntities(
         ReplaceAll(Lit(Entities[k][1]), text, Entities[k][2], TRUE, FALSE),
         k + 1)

\* extractPlainText
extractPlainText(html) ==
  IF Len(html) = 0 THEN <<>>
  ELSE LET t1 == ReplaceAll(BlockPattern(<<"s","c","r","i","p","t">>), html, <<>>, FALSE, TRUE)
           t2 == ReplaceAll(BlockPattern(<<"s","t","y","l","e">>), t1, <<>>, FALSE, TRUE)
           t3 == ReplaceAll(BrPattern, t2, <<"\n">>, TRUE, TRUE)
           t4 == ReplaceAll(Lit(<<"<","/","p",">">>), t3, <<"\n">>, TRUE, TRUE)
           t5 == ReplaceAll(TagPattern, t4, <<>>, TRUE, FALSE)
           t6 == DecodeEntities(t5, 1)
       IN  Trim(ReplaceAll(Plus(Space), t6, <<" ">>, TRUE, FALSE))

\* createSemanticTextItem
createSemanticTextItem(field, metadata, path) ==
  LET plainText == extractPlainText(field.value)
  IN  [ id       |-> metadata.componentId \o <<"-">> \o field.name,
        text     |-> IF Len(plainText) > 0 THEN plainText ELSE field.value,
        category |-> field.category,
        metadata |-> metadata,
        path     |-> path ]

-----------------------------------------------------------------------------
(* contentParser.ts: extractSemanticItems                                  *)

\* the items of the fields of one component, in field order
FieldItems(component, componentPath) ==
  [ k \in 1..Len(component.fields) |->
      createSemanticTextItem(
        component.fields[k],
        [ componentName        |-> component.componentName,
          componentId          |-> component.id,
          datasourceItemId     |-> component.datasourceId,
          fieldName            |-> component.fields[k].name,
          renderingPlaceholder |-> component.placeholder,
          params               |-> component.params ],
        componentPath) ]

\* processComponent, and its loop over a list of siblings
RECURSIVE processComponent(_, _)
RECURSIVE processComponents(_, _)

\* processComponent with the breadcrumb built from componentName
processComponent_byComponentName(component, path) ==
  LET componentPath == Append(path, component.componentName)
  IN  FieldItems(component, componentPath)
        \o processComponents(component.children, componentPath)

\* processComponent with the children visited before the fields
processComponent_childrenFirst(component, path) ==
  LET componentPath == Append(path, component.name)
  IN  processComponents(component.children, componentPath)
        \o FieldItems(component, componentPath)

processComponent(component, path) ==
  LET componentPath == Append(path, component.name)
  IN  FieldItems(component, componentPath)
        \o processComponents(component.children, componentPath)

processComponents(components, path) ==
  IF Len(components) = 0 THEN <<>>
  ELSE processComponent(components[1], path)
         \o processComponents(Tail(components), path)

\* extractSemanticItems
extractSemanticItems(page) == processComponents(page.components, <<page.name>>)

-----------------------------------------------------------------------------
(* Extraction of the semantic items of one page                            *)

\* the canonical trees have at most MaxNodes components
MaxNodes == 3

\* the kinds of component of the modelled pages: a container without fields,
\* a component whose display name differs from its component name, and a
\* component with one field
ComponentKinds ==
  { [ name |-> <<"C","o","n","t","a","i","n","e","r">>, componentName |-> <<"C","o","n","t","a","i","n","e","r">>, fields |-> <<>> ],
    [ name |-> <<"H","e","r","o"," ","B","a","n","n","e","r">>, componentName |-> <<"H","e","r","o">>,
      fields |-> << [ name |-> <<"T","i","t","l","e">>, value |-> <<"W","e","l","c","o","m","e">>,
                      type |-> "Single-Line Text", category |-> "Heading" ],
                    [ name |-> <<"T","e","x","t">>,
                      value |-> <<"<","p",">","F","o","r","m","a","t","t","e","d"," ","<","s","t","r","o","n","g",">","c","o","n","t","e","n","t","<","/","s","t","r","o","n","g",">","<","/","p",">">>,
                      type |-> "Rich Text", category |-> "RichText" ] >> ],
    [ name |-> <<"T","e","x","t">>, componentName |-> <<"T","e","x","t">>,
      fields |-> << [ name |-> <<"C","o","n","t","e","n","t">>, value |-> <<"N","e","s","t","e","d"," ","t","e","x","t">>,
                      type |-> "Multi-Line Text",
                      category |-> "Paragraph" ] >> ] }

\* a ComponentNode of the given kind; its id is set by WithIds
ComponentNode(kind, children) ==
  [ id            |-> <<>>,
    name          |-> kind.name,
    componentName |-> kind.componentName,
    type          |-> "Component",
    datasourceId  |-> Undefined,
    placeholder   |-> <<"m","a","i","n">>,
    params        |-> Undefined,
    fields        |-> kind.fields,
    children      |-> children ]

\* the lists of component trees that hold exactly n components
RECURSIVE ForestsOf(_)
ForestsOf(n) ==
  IF n = 0 THEN { <<>> }
  ELSE UNION { { <<ComponentNode(kind, kids)>> \o rest :
                   kind \in ComponentKinds,
                   kids \in ForestsOf(k - 1),
                   rest \in ForestsOf(n - k) } : k \in 1..n }

\* every component gets the id of its place in the tree: c1, c2, c1.1, ...
RECURSIVE WithIds(_, _)
WithIds(forest, prefix) ==
  [ i \in 1..Len(forest) |->
      [ forest[i] EXCEPT
          !.id = prefix \o <<<<"0","1","2","3","4","5","6","7","8","9">>[i + 1]>>,
          !.children = WithIds(@, prefix \o <<<<"0","1","2","3","4","5","6","7","8","9">>[i + 1], ".">>) ] ]

PageInputs ==
  UNION { { [ itemId |-> <<"p","a","g","e","-","1","2","3">>, name |-> <<"H","o","m","e">>, language |-> <<"e","n">>,
              path |-> <<"/">>, components |-> WithIds(f, <<"c">>) ] :
            f \in ForestsOf(n) } : n \in 0..MaxNodes }

InitExtract ==
  /\ pc = "extract"
  /\ pageContent \in PageInputs
  /\ semanticItems = Idle
  /\ fieldName = Idle
  /\ fieldValue = Idle
  /\ fieldType = Idle
  /\ templateName = Idle
  /\ category = Idle
  /\ pageData = Idle
  /\ scanResult = Idle
  /\ datasourceField = Idle
  /\ fieldInfo = Idle
  /\ pagesContext = Idle
  /\ searchBox = Idle

ExtractSemanticItems ==
  /\ pc = "extract"
  /\ semanticItems' = extractSemanticItems(pageContent)
  /\ pc' = "extracted"
  /\ UNCHANGED <<datasourceField, fieldInfo, pagesContext, searchBox>>
  /\ UNCHANGED <<fieldName, fieldValue, fieldType, templateName, category,
                 pageContent, pageData, scanResult>>

NextExtract == ExtractSemanticItems

SpecExtract == InitExtract /\ [][NextExtract]_vars

\* the places of the components of a list of trees: child indices from a root
RECURSIVE Positions(_)
Positions(forest) ==
  UNION { { <<i>> } \cup { <<i>> \o q : q \in Positions(forest[i].children) } :
          i \in 1..Len(forest) }

RECURSIVE NodeAt(_, _)
NodeAt(forest, pos) ==
  IF Len(pos) = 1 THEN forest[pos[1]]
  ELSE NodeAt(forest[pos[1]].children, Tail(pos))

\* the page name, then the names of the components from the root down to the
\* component at pos
AncestorChain(page, pos) ==
  <<page.name>>
    \o [ j \in 1..Len(pos) |-> NodeAt(page.components, SubSeq(pos, 1, j)).name ]

-----------------------------------------------------------------------------
(* seoScanner.ts                                                           *)

\* the result of String.prototype.match for a pattern with one group, as a
\* list: empty when there is no match, else holding the captured text
NoMatch == <<>>

\* text.match(/<prefix>\s*(<group>)/): the leftmost match; \s* takes as much
\* white space as leaves a match of the greedy group, which is captured
MatchAfterPrefix(prefix, group, text) ==
  LET Capture(w) == <<SubSeq(text, w + 1, SetMax(Ends(group, text, w)))>>
      After(q) ==
        Capture(SetMax({w \in Ends(Star(Space), text, q) :
                          Ends(group, text, w) # {}}))
      From(starts) ==
        IF starts = {} THEN NoMatch ELSE After(SetMin(starts) + Len(prefix))
  IN  From({p \in 0..Len(text) :
              Ends(Cat(<<Lit(prefix), Star(Space), group>>), text, p) # {}})

\* item.text.match(/Alt:\s*([^|]+)/)
AltMatch(text) == MatchAfterPrefix(<<"A","l","t",":">>, Plus(NotCls({"|"})), text)

\* item.text.match(/Src:\s*(.+)$/)
SrcMatch(text) == MatchAfterPrefix(<<"S","r","c",":">>, Cat(<<Plus(Dot), Eol>>), text)

\* item.text.match(/\[([^\]]+)\]$/)
UrlMatch(text) ==
  LET From(starts) ==
        IF starts = {} THEN NoMatch
        ELSE <<SubSeq(text, SetMin(starts) + 2, Len(text) - 1)>>
  IN  From({p \in 0..Len(text) :
              Ends(Cat(<<Lit(<<"[">>), Plus(NotCls({"]"})), Lit(<<"]">>), Eol>>),
                   text, p) # {}})

\* item.text.match(/^([^\[(]+)/)
TextMatch(text) ==
  LET Upto(ends) ==
        IF ends = {} THEN NoMatch ELSE <<SubSeq(text, 1, SetMax(ends))>>
  IN  Upto(Ends(Plus(NotCls({"[", "("})), text, 0))

\* match ? match[1].trim() : ''
Captured(match) == IF match = NoMatch THEN <<>> ELSE Trim(match[1])

AsciiAlpha == Range(LowerLetters) \cup Range(UpperLetters)

\* the schemes that the URL standard calls special, file apart
SpecialSchemes == { <<"h","t","t","p">>, <<"h","t","t","p","s">>, <<"f","t","p">>, <<"w","s">>, <<"w","s","s">> }

\* the code points the URL standard forbids in a host, as far as the
\* modelled strings hold them
ForbiddenHostChars == {" ", "\t", "\n", "<", ">", "[", "]", "^", "|", "\\", "%"}

\* the offset of the colon that ends the scheme of href, 0 if href does not
\* start with a scheme
SchemeEnd(href) ==
  LET colons == {c \in 2..Len(href) :
                   /\ href[c] = ":"
                   /\ href[1] \in AsciiAlpha
                   /\ \A k \in 2..(c - 1) :
                        href[k] \in AsciiAlpha \cup Digits \cup {"+", "-", "."}}
  IN  IF colons = {} THEN 0 ELSE SetMin(colons)

\* the authority in rest, the part of a URL after the colon of its scheme:
\* what lies between the leading slashes and the next / \ ? or #
AuthorityOf(rest) ==
  LET slash == {k \in 1..Len(rest) : rest[k] \notin {"/", "\\"}}
      begin == IF slash = {} THEN Len(rest) + 1 ELSE SetMin(slash)
      stops == {k \in begin..Len(rest) : rest[k] \in {"/", "\\", "?", "#"}}
      stop  == IF stops = {} THEN Len(rest) + 1 ELSE SetMin(stops)
  IN  SubSeq(rest, begin, stop - 1)

\* host and port of an authority: what follows its last @
HostAndPort(auth) ==
  LET ats == {k \in 1..Len(auth) : auth[k] = "@"}
  IN  IF ats = {} THEN auth ELSE SubSeq(auth, SetMax(ats) + 1, Len(auth))

\* the host of host:port
HostOf(hostp) ==
  LET pcs == {k \in 1..Len(hostp) : hostp[k] = ":"}
  IN  IF pcs = {} THEN hostp ELSE SubSeq(hostp, 1, SetMax(pcs) - 1)

\* the port of host:port
PortOf(hostp) ==
  LET pcs == {k \in 1..Len(hostp) : hostp[k] = ":"}
  IN  IF pcs = {} THEN <<>> ELSE SubSeq(hostp, SetMax(pcs) + 1, Len(hostp))

\* a host without forbidden characters and a numeric port
HostOk(host, port) ==
  /\ \A k \in 1..Len(host) : host[k] \notin ForbiddenHostChars
  /\ \A k \in 1..Len(port) : port[k] \in Digits

\* whether a URL with this scheme, followed by rest and holding hostp as
\* host and port, parses
UrlParsesAs(scheme, rest, hostp) ==
  IF scheme \in SpecialSchemes
    THEN Len(HostOf(hostp)) > 0 /\ HostOk(HostOf(hostp), PortOf(hostp))
  ELSE IF scheme # <<"f","i","l","e">> /\ StartsWith(rest, <<"/","/">>)
    THEN HostOk(HostOf(hostp), PortOf(hostp))
  ELSE TRUE

\* the part of href after the colon at offset c
AfterScheme(href, c) == SubSeq(href, c + 1, Len(href))

\* whether new URL(href) returns rather than throws: href must start with a
\* scheme; a special scheme other than file needs a non-empty host without
\* forbidden characters and a numeric port; another scheme followed by //
\* needs a host without forbidden characters; anything else after a scheme
\* is an opaque path, which always parses
UrlParses(href) ==
  /\ SchemeEnd(href) > 0
  /\ UrlParsesAs(ToLower(SubSeq(href, 1, SchemeEnd(href) - 1)),
                 AfterScheme(href, SchemeEnd(href)),
                 HostAndPort(AuthorityOf(AfterScheme(href, SchemeEnd(href)))))

\* the placeholder test shared by extractLinks and detectBrokenLink
IsPlaceholderHref(href) ==
  href = <<"h","t","t","p",":","/","/","#">> \/ href = <<"#">> \/ StartsWith(href, <<"h","t","t","p",":","/","/","#">>)

\* detectBrokenLink, reporting every href that new URL rejects
detectBrokenLink_parseOnly(href) ==
  IF Len(href) = 0 \/ Len(Trim(href)) = 0 THEN TRUE
  ELSE IF IsPlaceholderHref(href) THEN TRUE
  ELSE IF Includes(href, <<"j","a","v","a","s","c","r","i","p","t",":","v","o","i","d","(","0",")">>) \/ Includes(href, <<"j","a","v","a","s","c","r","i","p","t",":",";">>)
    THEN TRUE
  ELSE ~UrlParses(href)

\* detectBrokenLink
detectBrokenLink(href) ==
  IF Len(href) = 0 \/ Len(Trim(href)) = 0 THEN TRUE
  ELSE IF IsPlaceholderHref(href) THEN TRUE
  ELSE IF Includes(href, <<"j","a","v","a","s","c","r","i","p","t",":","v","o","i","d","(","0",")">>) \/ Includes(href, <<"j","a","v","a","s","c","r","i","p","t",":",";">>)
    THEN TRUE
  ELSE IF StartsWith(href, <<"/">>) \/ StartsWith(href, <<".","/">>) \/ StartsWith(href, <<".",".","/">>)
    THEN FALSE
  ELSE IF UrlParses(href) THEN FALSE
  ELSE Includes(href, <<" ">>) \/ Includes(href, <<"\n">>) \/ Includes(href, <<"\t">>)

\* Array.prototype.filter by category
OfCategory(items, cats) == SelectSeq(items, LAMBDA it : it.category \in cats)

\* item.metadata.fieldName.toLowerCase().includes(part)
NameIncludes(item, part) == Includes(ToLower(item.metadata.fieldName), part)

\* the PageImage of an Image item
ImageOf(item) ==
  [ id            |-> item.id,
    alt           |-> Captured(AltMatch(item.text)),
    src           |-> Captured(SrcMatch(item.text)),
    componentId   |-> item.metadata.componentId,
    componentName |-> item.metadata.componentName,
    fieldName     |-> item.metadata.fieldName,
    path          |-> item.path ]

\* extractImages
extractImages(items) ==
  LET parsed == [k \in 1..Len(OfCategory(items, {"Image"})) |->
                   ImageOf(OfCategory(items, {"Image"})[k])]
  IN  SelectSeq(parsed, LAMBDA img : Len(img.src) > 0)

\* a variant of the isPlaceholder flag that knows the bare hash only
linkIsPlaceholder_hashOnly(href) == href = <<"#">>

\* the isPlaceholder flag that extractLinks computes for a non-empty href
linkIsPlaceholder(href) ==
  IsPlaceholderHref(href) \/ Len(Trim(href)) = 0

\* the PageLink of a Link item
LinkOf(item) ==
  LET Link(href) ==
        [ text          |-> Captured(TextMatch(item.text)),
          href          |-> href,
          isPlaceholder |-> linkIsPlaceholder(href),
          isBroken      |-> detectBrokenLink(href),
          componentId   |-> item.metadata.componentId,
          componentName |-> item.metadata.componentName,
          fieldName     |-> item.metadata.fieldName,
          path          |-> item.path ]
  IN  Link(Captured(UrlMatch(item.text)))

\* extractLinks
extractLinks(items) ==
  LET parsed == [k \in 1..Len(OfCategory(items, {"Link"})) |->
                   LinkOf(OfCategory(items, {"Link"})[k])]
  IN  SelectSeq(parsed, LAMBDA l : Len(l.href) > 0)

\* the limit to which extractMetadata cuts a description that is not a meta field
DescriptionCut == 165

\* extractMetadata, taking the first candidate whatever its name
extractMetadata_firstCandidate(page, items) ==
  LET titleFields == SelectSeq(items, LAMBDA it :
                       /\ NameIncludes(it, <<"t","i","t","l","e">>)
                       /\ it.category \in {"Heading", "Label"})
      metaTitles  == SelectSeq(titleFields, LAMBDA it : NameIncludes(it, <<"m","e","t","a">>))
      descFields  == SelectSeq(items, LAMBDA it :
                       /\ \/ NameIncludes(it, <<"d","e","s","c","r","i","p","t","i","o","n">>)
                          \/ NameIncludes(it, <<"m","e","t","a">>)
                          \/ NameIncludes(it, <<"s","u","m","m","a","r","y">>)
                       /\ it.category \in {"Paragraph", "RichText"})
  IN  [ title |->
          IF Len(titleFields) > 0
            THEN Trim((IF Len(metaTitles) > 0 THEN metaTitles[1]
                       ELSE titleFields[1]).text)
          ELSE page.name,
        description |->
          IF Len(descFields) = 0 THEN Absent
          ELSE Substring0(Trim(extractPlainText(descFields[1].text)),
                          DescriptionCut) ]

\* extractMetadata
extractMetadata(page, items) ==
  LET titleFields == SelectSeq(items, LAMBDA it :
                       /\ NameIncludes(it, <<"t","i","t","l","e">>)
                       /\ it.category \in {"Heading", "Label"})
      metaTitles  == SelectSeq(titleFields, LAMBDA it : NameIncludes(it, <<"m","e","t","a">>))
      descFields  == SelectSeq(items, LAMBDA it :
                       /\ \/ NameIncludes(it, <<"d","e","s","c","r","i","p","t","i","o","n">>)
                          \/ NameIncludes(it, <<"m","e","t","a">>)
                          \/ NameIncludes(it, <<"s","u","m","m","a","r","y">>)
                       /\ it.category \in {"Paragraph", "RichText"})
      metaDescs   == SelectSeq(descFields, LAMBDA it : NameIncludes(it, <<"m","e","t","a">>))
  IN  [ title |->
          IF Len(titleFields) > 0
            THEN Trim((IF Len(metaTitles) > 0 THEN metaTitles[1]
                       ELSE titleFields[1]).text)
          ELSE page.name,
        description |->
          IF Len(descFields) = 0 THEN Absent
          ELSE IF Len(metaDescs) > 0
            THEN Trim(extractPlainText(metaDescs[1].text))
          ELSE Substring0(Trim(extractPlainText(descFields[1].text)),
                          DescriptionCut) ]

\* one turn of the loop of extractHeadings: h is the headings object so far
HeadingStep(h, item) ==
  LET Placed(text, name, noH1) ==
        IF \/ Includes(name, <<"h","1">>)
           \/ name = <<"t","i","t","l","e">>
           \/ name = <<"h","e","a","d","i","n","g">>
           \/ (noH1 /\ ~Includes(name, <<"h","2">>) /\ ~Includes(name, <<"h","3">>))
          THEN (IF noH1 THEN [h EXCEPT !.h1 = text] ELSE h)
        ELSE IF Includes(name, <<"h","2">>) \/ ~noH1
          THEN [h EXCEPT !.h2 = Append(@, text)]
        ELSE IF Includes(name, <<"h","3">>)
          THEN [h EXCEPT !.h3 = Append(@, text)]
        ELSE h
      Step(text) ==
        IF Len(text) = 0 THEN h
        ELSE [Placed(text, ToLower(item.metadata.fieldName), h.h1 = Absent)
                EXCEPT !.all = Append(@, text)]
  IN  Step(Trim(extractPlainText(item.text)))

RECURSIVE HeadingLoop(_, _)
HeadingLoop(h, items) ==
  IF Len(items) = 0 THEN h
  ELSE HeadingLoop(HeadingStep(h, items[1]), Tail(items))

\* extractHeadings
extractHeadings(items) ==
  HeadingLoop([h1 |-> Absent, h2 |-> <<>>, h3 |-> <<>>, all |-> <<>>],
              OfCategory(items, {"Heading"}))

\* the length above which extractTextContent takes the text of an Other item
OtherTextMin == 50

\* the length that a paragraph must exceed to be part of the body text
ParagraphMin == 10

\* extractTextContent
extractTextContent(items) ==
  LET textItems == SelectSeq(items, LAMBDA it :
                     \/ it.category \in {"Paragraph", "RichText"}
                     \/ (it.category = "Other" /\ Len(it.text) > OtherTextMin))
      texts     == [k \in 1..Len(textItems) |->
                      Trim(extractPlainText(textItems[k].text))]
  IN  Join(SelectSeq(texts, LAMBDA t : Len(t) > ParagraphMin), <<" ">>)

\* .split(/\s+/).filter((w) => w.length > 0)
Words(text) == SelectSeq(Split(Plus(Space), text), LAMBDA w : Len(w) > 0)

\* countWords of seoScanner.ts
countWords(text) ==
  IF Len(text) = 0 \/ Len(Trim(text)) = 0 THEN 0 ELSE Len(Words(Trim(text)))

Vowels == Range(<<"a","e","i","o","u","y">>)

\* countSyllables
countSyllables(word) ==
  LET Modified(lowerWord) ==
        IF Len(lowerWord) > 0 /\ lowerWord[Len(lowerWord)] = "e"
          THEN SubSeq(lowerWord, 1, Len(lowerWord) - 1)
        ELSE lowerWord
      Groups(modified) ==
        {k \in 1..Len(modified) :
           /\ modified[k] \in Vowels
           /\ (k = 1 \/ modified[k - 1] \notin Vowels)}
      Syllables(lowerWord, groups) ==
        Cardinality(groups)
          + (IF EndsWith(lowerWord, <<"l","e">>) /\ Len(lowerWord) > 2 THEN 1 ELSE 0)
      Count(lowerWord, groups) ==
        IF Len(lowerWord) <= 3 THEN 1
        ELSE IF groups = {} THEN 1
        ELSE IF Syllables(lowerWord, groups) < 1 THEN 1
        ELSE Syllables(lowerWord, groups)
      Of(lowerWord) == Count(lowerWord, Groups(Modified(lowerWord)))
  IN  Of(Trim(ToLower(word)))

RECURSIVE SumSyllables(_)
SumSyllables(words) ==
  IF Len(words) = 0 THEN 0
  ELSE countSyllables(words[1]) + SumSyllables(Tail(words))

\* Math.round(n / d) for d > 0: the nearest integer, a tie going up
RoundDiv(n, d) == (2 * n + d) \div (2 * d)

\* getReadabilityGrade
getReadabilityGrade(score) ==
  IF score >= 90 THEN "5th grade"
  ELSE IF score >= 80 THEN "6th grade"
  ELSE IF score >= 70 THEN "7th grade"
  ELSE IF score >= 60 THEN "8th-9th grade"
  ELSE IF score >= 50 THEN "10th-12th grade"
  ELSE IF score >= 30 THEN "College"
  ELSE "College graduate"

\* Math.round(206.835 - 1.015 * (W / S) - 84.6 * (Y / W)): with W words,
\* S sentences and Y syllables the Flesch score is the fraction
\* (206835 S W - 1015 W W - 84600 Y S) / (1000 S W)
FleschScore(W, S, Y) ==
  RoundDiv(206835 * S * W - 1015 * W * W - 84600 * Y * S, 1000 * S * W)

\* Math.max(0, Math.min(100, score))
Clamp100(score) == IF score < 0 THEN 0 ELSE IF score > 100 THEN 100 ELSE score

\* a variant of calculateReadability that does not clamp the score
calculateReadability_unclamped(words, sentences) ==
  IF Len(words) = 0 \/ Len(sentences) = 0
    THEN [ score |-> 0, grade |-> "N/A", sentences |-> 0, words |-> 0,
           syllables |-> 0, averageWordsPerSentence |-> 0,
           averageSyllablesPerWord |-> 0 ]
  ELSE LET W == Len(words)
           S == Len(sentences)
           Metrics(Y, score) ==
             [ score |-> score,
               grade |-> getReadabilityGrade(score),
               sentences |-> S, words |-> W, syllables |-> Y,
               averageWordsPerSentence |-> RoundDiv(10 * W, S),
               averageSyllablesPerWord |-> RoundDiv(100 * Y, W) ]
           Of(Y) == Metrics(Y, FleschScore(W, S, Y))
       IN  Of(SumSyllables(words))

\* calculateReadability.  The two averages are reported in tenths and in
\* hundredths, as the code rounds them.
calculateReadability(words, sentences) ==
  IF Len(words) = 0 \/ Len(sentences) = 0
    THEN [ score |-> 0, grade |-> "N/A", sentences |-> 0, words |-> 0,
           syllables |-> 0, averageWordsPerSentence |-> 0,
           averageSyllablesPerWord |-> 0 ]
  ELSE LET W == Len(words)
           S == Len(sentences)
           Metrics(Y, clampedScore) ==
             [ score |-> clampedScore,
               grade |-> getReadabilityGrade(clampedScore),
               sentences |-> S, words |-> W, syllables |-> Y,
               averageWordsPerSentence |-> RoundDiv(10 * W, S),
               averageSyllablesPerWord |-> RoundDiv(100 * Y, W) ]
           Of(Y) == Metrics(Y, Clamp100(FleschScore(W, S, Y)))
       IN  Of(SumSyllables(words))

\* calculateContentMetrics
calculateContentMetrics(text, headings, links, images) ==
  LET Metrics(cleanText, words, sentences, paragraphs) ==
        [ wordCount      |-> Len(words),
          characterCount |-> Len(cleanText),
          paragraphCount |-> Len(paragraphs),
          headingCount   |-> Len(headings.all),
          linkCount      |-> Len(links),
          imageCount     |-> Len(images),
          readability    |-> calculateReadability(words, sentences) ]
      Of(cleanText) ==
        Metrics(cleanText,
                Words(cleanText),
                SelectSeq(Split(Plus(Cls({".", "!", "?"})), cleanText),
                          LAMBDA s : Len(Trim(s)) > 0),
                SelectSeq(
                  Split(Cat(<<Lit(<<"\n">>), Star(Space), Lit(<<"\n">>)>>),
                        cleanText),
                  LAMBDA p : Len(Trim(p)) > 0))
  IN  Of(Trim(ReplaceAll(TagPattern, text, <<" ">>, TRUE, FALSE)))

-----------------------------------------------------------------------------
(* seoScanner.ts: content organised by component                           *)

\* the index of the entry of componentMap whose key is id, 0 if there is none
IndexOfComponent(entries, id) ==
  LET hits == {k \in 1..Len(entries) : entries[k].componentId = id}
  IN  IF hits = {} THEN 0 ELSE SetMin(hits)

\* the branch of the loop of extractComponentContent taken for item, applied
\* to the item's ComponentContent c
CategorizeItem(c, item) ==
  LET Heading(text, name, all) ==
        IF Includes(name, <<"h","1">>) \/ name = <<"t","i","t","l","e">> \/ name = <<"h","e","a","d","i","n","g">>
          THEN (IF all.headings.h1 = Absent
                  THEN [all EXCEPT !.headings.h1 = text] ELSE all)
        ELSE IF Includes(name, <<"h","2">>)
          THEN [all EXCEPT !.headings.h2 = Append(@, text)]
        ELSE IF Includes(name, <<"h","3">>)
          THEN [all EXCEPT !.headings.h3 = Append(@, text)]
        ELSE all
      WithHeading(text) ==
        IF Len(text) = 0 THEN c
        ELSE Heading(text, ToLower(item.metadata.fieldName),
                     [c EXCEPT !.headings.all = Append(@, text)])
      WithParagraph(text) ==
        IF Len(text) > ParagraphMin
          THEN [c EXCEPT !.paragraphs =
                  Append(@, [fieldName |-> item.metadata.fieldName,
                             text |-> text])]
        ELSE c
      WithImage(image) ==
        IF Len(image.src) > 0 THEN [c EXCEPT !.images = Append(@, image)]
        ELSE c
      WithLink(href) ==
        IF Len(href) > 0
          THEN [c EXCEPT !.links =
                  Append(@, [ text          |-> Captured(TextMatch(item.text)),
                              href          |-> href,
                              isPlaceholder |-> href = <<"h","t","t","p",":","/","/","#">> \/ href = <<"#">>,
                              componentId   |-> item.metadata.componentId,
                              componentName |-> item.metadata.componentName,
                              fieldName     |-> item.metadata.fieldName,
                              path          |-> item.path ])]
        ELSE c
  IN  IF item.category = "Heading"
        THEN WithHeading(Trim(extractPlainText(item.text)))
      ELSE IF item.category \in {"Paragraph", "RichText"}
        THEN WithParagraph(Trim(extractPlainText(item.text)))
      ELSE IF item.category = "Image" THEN WithImage(ImageOf(item))
      ELSE IF item.category = "Link"
        THEN WithLink(Captured(UrlMatch(item.text)))
      ELSE c

\* extractComponentContent: the values of componentMap in insertion order
RECURSIVE ComponentLoop(_, _)
ComponentLoop(entries, items) ==
  IF Len(items) = 0 THEN entries
  ELSE LET item  == items[1]
           fresh == [ componentId   |-> item.metadata.componentId,
                      componentName |-> item.metadata.componentName,
                      path          |-> item.path,
                      headings      |-> [h1 |-> Absent, h2 |-> <<>>, h3 |-> <<>>,
                                         all |-> <<>>],
                      paragraphs    |-> <<>>,
                      images        |-> <<>>,
                      links         |-> <<>> ]
           known == IndexOfComponent(entries, item.metadata.componentId)
           with  == IF known = 0 THEN Append(entries, fresh) ELSE entries
           k     == IF known = 0 THEN Len(with) ELSE known
       IN  ComponentLoop([with EXCEPT ![k] = CategorizeItem(@, item)], Tail(items))

extractComponentContent(items) == ComponentLoop(<<>>, items)

\* scanPageContent
scanPageContent(page, items) ==
  LET PageData(text, headings, images, links) ==
        [ metadata   |-> extractMetadata(page, items),
          headings   |-> headings,
          text       |-> text,
          images     |-> images,
          links      |-> links,
          wordCount  |-> countWords(text),
          components |-> extractComponentContent(items),
          metrics    |-> calculateContentMetrics(text, headings, links, images) ]
  IN  PageData(extractTextContent(items), extractHeadings(items),
               extractImages(items), extractLinks(items))

-----------------------------------------------------------------------------
(* seoScorer.ts                                                            *)

\* the title length up to which the title earns its full credit
TitleLimit == 60

\* the description length up to which the description earns its full credit
DescriptionLimit == 165

\* the word count from which the body earns the full length credit
FullLengthWords == 250

\* the readability score below which lowReadability is raised
ReadabilityMin == 60

\* the alt text length from which an image counts as described
AltMin == 5

\* the number of links above which tooManyLinks is raised
LinksMax == 100

\* value?.trim() || ''
TrimOrEmpty(value) == IF value = Absent THEN <<>> ELSE Trim(value)

\* the credit, in tenths of a point, of a title or description of length len:
\* 10 up to the limit, then 10 - (len - limit) * 0.1, not below 0
LengthCredit(len, limit) ==
  IF len = 0 THEN 0
  ELSE IF len <= limit THEN 100
  ELSE IF 100 - (len - limit) < 0 THEN 0 ELSE 100 - (len - limit)

\* the bonus, in tenths of a point, for title and description both present
BothPresentBonus(titleLen, descriptionLen) ==
  IF titleLen > 0 /\ descriptionLen > 0 THEN 50 ELSE 0

\* the sum that scoreMetadata rounds, in tenths of a point
MetadataTenths(metadata) ==
  LET titleLen       == Len(TrimOrEmpty(metadata.title))
      descriptionLen == Len(TrimOrEmpty(metadata.description))
  IN  LengthCredit(titleLen, TitleLimit)
        + LengthCredit(descriptionLen, DescriptionLimit)
        + BothPresentBonus(titleLen, descriptionLen)

\* Math.min(25, x)
Min25(x) == IF x > 25 THEN 25 ELSE x

\* a variant of scoreMetadata that grants the bonus for a title alone
scoreMetadata_bonusForTitle(metadata) ==
  Min25(RoundDiv(MetadataTenths(metadata)
                   + (IF /\ Len(TrimOrEmpty(metadata.title)) > 0
                         /\ Len(TrimOrEmpty(metadata.description)) = 0
                        THEN 50 ELSE 0), 10))

\* scoreMetadata
scoreMetadata(metadata) == Min25(RoundDiv(MetadataTenths(metadata), 10))

\* countWords of seoScorer.ts
scorerCountWords(text) ==
  IF Len(text) = 0 \/ Len(Trim(text)) = 0 THEN 0
  ELSE Len(Words(Trim(ReplaceAll(TagPattern, text, <<" ">>, TRUE, FALSE))))

\* headings.h1 && headings.h1.trim().length > 0
HasH1(headings) == headings.h1 # Absent /\ Len(Trim(headings.h1)) > 0

\* wordCount || countWords(text); an omitted wordCount acts as 0 does
WordsOf(text, wordCount) ==
  IF wordCount # 0 THEN wordCount ELSE scorerCountWords(text)

\* a variant of scoreContent that truncates the partial credit
scoreContent_truncated(headings, text, wordCount) ==
  LET LengthPoints(words) ==
        IF words >= FullLengthWords THEN 10
        ELSE IF words > 0 THEN (words * 10) \div FullLengthWords
        ELSE 0
  IN  Min25((IF HasH1(headings) THEN 15 ELSE 0)
              + LengthPoints(WordsOf(text, wordCount)))

\* scoreContent
scoreContent(headings, text, wordCount) ==
  LET LengthPoints(words) ==
        IF words >= FullLengthWords THEN 10
        ELSE IF words > 0 THEN RoundDiv(words * 10, FullLengthWords)
        ELSE 0
  IN  Min25((IF HasH1(headings) THEN 15 ELSE 0)
              + LengthPoints(WordsOf(text, wordCount)))

\* img.alt && img.alt.trim().length >= 5
HasAlt(img) == img.alt # Absent /\ Len(Trim(img.alt)) >= AltMin

\* a variant of scoreAccessibility that reports a percentage
scoreAccessibility_percent(images) ==
  IF Len(images) = 0 THEN 25
  ELSE RoundDiv(100 * Len(SelectSeq(images, HasAlt)), Len(images))

\* a variant of scoreAccessibility that accepts any alt text
scoreAccessibility_anyAlt(images) ==
  IF Len(images) = 0 THEN 25
  ELSE RoundDiv(25 * Len(SelectSeq(images, LAMBDA img :
                            img.alt # Absent /\ Len(Trim(img.alt)) > 0)),
                Len(images))

\* scoreAccessibility
scoreAccessibility(images) ==
  IF Len(images) = 0 THEN 25
  ELSE RoundDiv(25 * Len(SelectSeq(images, HasAlt)), Len(images))

\* !link.href || link.href.trim().length === 0
EmptyHref(link) == link.href = Absent \/ Len(Trim(link.href)) = 0

\* the filter of scoreLinks
ValidLink(link) ==
  /\ ~EmptyHref(link)
  /\ ~link.isPlaceholder
  /\ ~link.isBroken
  /\ link.href # <<"h","t","t","p",":","/","/","#">>
  /\ link.href # <<"#">>

\* scoreLinks
scoreLinks(links) ==
  IF Len(links) = 0 THEN 25
  ELSE RoundDiv(25 * Len(SelectSeq(links, ValidLink)), Len(links))

\* link.href || 'empty'
HrefOrEmpty(link) ==
  IF link.href = Absent \/ Len(link.href) = 0 THEN <<"e","m","p","t","y">> ELSE link.href

\* the branch of the link loop of identifyIssues taken for link: the list
\* the href is pushed to and the reason recorded, none if no branch is taken
LinkVerdict(link) ==
  IF EmptyHref(link) THEN "empty"
  ELSE IF link.isPlaceholder \/ link.href = <<"h","t","t","p",":","/","/","#">> \/ link.href = <<"#">>
    THEN "placeholder"
  ELSE IF link.isBroken THEN "suspected-broken"
  ELSE "none"

\* the BrokenLinkInfo of a loop that tests isBroken on its own
BrokenLinkInfo_brokenFlagFirst(link) ==
  [ href          |-> HrefOrEmpty(link),
    text          |-> link.text,
    componentId   |-> link.componentId,
    componentName |-> link.componentName,
    reason        |-> IF link.isBroken /\ ~EmptyHref(link)
                        THEN "suspected-broken" ELSE LinkVerdict(link) ]

\* the BrokenLinkInfo pushed for link
BrokenLinkInfo(link) ==
  [ href          |-> HrefOrEmpty(link),
    text          |-> link.text,
    componentId   |-> link.componentId,
    componentName |-> link.componentName,
    reason        |-> LinkVerdict(link) ]

\* link.href && !link.isPlaceholder && !link.isBroken && (relative href)
InternalLink(link) ==
  /\ link.href # Absent
  /\ Len(link.href) > 0
  /\ ~link.isPlaceholder
  /\ ~link.isBroken
  /\ \/ StartsWith(link.href, <<"/">>)
     \/ StartsWith(link.href, <<".","/">>)
     \/ StartsWith(link.href, <<".",".","/">>)

\* .map((img) => img.id)
ImageIds(images) == [k \in 1..Len(images) |-> images[k].id]

\* the hrefs pushed for the links of a list
Hrefs(links) == [k \in 1..Len(links) |-> HrefOrEmpty(links[k])]

\* the BrokenLinkInfo records pushed for the links of a list
BrokenLinkInfos(links) == [k \in 1..Len(links) |-> BrokenLinkInfo(links[k])]

\* identifyIssues.  An issue key that the code leaves unset is FALSE here,
\* or the empty list for the keys that hold a list (the code sets those
\* only to non-empty lists).
identifyIssues(data) ==
  LET links == data.links
      wordCount == WordsOf(data.text, data.wordCount)
  IN  [ issues |->
          [ missingMetaDescription |->
              Len(TrimOrEmpty(data.metadata.description)) = 0,
            titleTooLong |-> Len(TrimOrEmpty(data.metadata.title)) > TitleLimit,
            descriptionTooLong |->
              Len(TrimOrEmpty(data.metadata.description)) > DescriptionLimit,
            missingH1 |-> ~HasH1(data.headings),
            shortContent |-> wordCount < FullLengthWords,
            lowReadability |-> data.metrics.readability.score < ReadabilityMin,
            weakAltText |->
              ImageIds(SelectSeq(data.images, LAMBDA img : ~HasAlt(img))),
            missingImages |-> Len(data.images) = 0,
            placeholderLinks |->
              Hrefs(SelectSeq(links, LAMBDA l : LinkVerdict(l) = "placeholder")),
            brokenLinks |->
              Hrefs(SelectSeq(links, LAMBDA l :
                                LinkVerdict(l) \in {"empty", "suspected-broken"})),
            tooManyLinks |-> Len(links) > LinksMax,
            noInternalLinks |->
              Len(links) > 0 /\ Len(SelectSeq(links, InternalLink)) = 0 ],
        brokenLinksDetails |->
          BrokenLinkInfos(SelectSeq(links, LAMBDA l : LinkVerdict(l) # "none")) ]

\* computeSEOScore; the sum of four integers is its own rounding
computeSEOScore(data) ==
  LET ScanResult(breakdown, found) ==
        [ seoScore  |-> breakdown.metadata + breakdown.content
                          + breakdown.accessibility + breakdown.links,
          breakdown |-> breakdown,
          issues    |-> found.issues,
          pageData  |-> data,
          brokenLinksDetails |-> found.brokenLinksDetails ]
  IN  ScanResult([ metadata      |-> scoreMetadata(data.metadata),
                   content       |-> scoreContent(data.headings, data.text,
                                                  data.wordCount),
                   accessibility |-> scoreAccessibility(data.images),
                   links         |-> scoreLinks(data.links) ],
                 identifyIssues(data))

-----------------------------------------------------------------------------
(* Scanning and scoring the semantic items of one page                     *)

\* the scanned lists hold at most MaxItems semantic items
MaxItems == 2

\* a SemanticTextItem of a field of a component that is a child of the page
ItemOf(componentId, componentName, name, cat, text) ==
  [ id       |-> componentId \o <<"-">> \o name,
    text     |-> text,
    category |-> cat,
    metadata |-> [ componentName        |-> componentName,
                   componentId          |-> componentId,
                   datasourceItemId     |-> Undefined,
                   fieldName            |-> name,
                   renderingPlaceholder |-> <<"m","a","i","n">>,
                   params               |-> Undefined ],
    path     |-> <<<<"H","o","m","e">>, componentName>> ]

\* the items that the scanned lists are drawn from: headings with and
\* without a level hint, a meta description, body texts
\* that are easy, hard and free of words, images with missing, short and good alt text, links
\* that are placeholders, valid, malformed and script calls, and a label
ItemInputs ==
  { ItemOf(<<"c","1">>, <<"H","e","r","o">>, <<"T","i","t","l","e">>, "Heading", <<"W","e","l","c","o","m","e">>),
    ItemOf(<<"c","1">>, <<"H","e","r","o">>, <<"H","2","H","e","a","d","i","n","g">>, "Heading", <<"<","h","2",">","A","b","o","u","t"," ","u","s","<","/","h","2",">">>),
    ItemOf(<<"c","2">>, <<"T","e","x","t">>, <<"H","3","H","e","a","d","i","n","g">>, "Heading", <<"D","e","t","a","i","l","s">>),
    ItemOf(<<"c","2">>, <<"T","e","x","t">>, <<"M","e","t","a","D","e","s","c","r","i","p","t","i","o","n">>, "Paragraph",
           <<"F","i","n","d"," ","t","h","e"," ","b","e","s","t"," ","d","e","a","l","s"," ","h","e","r","e",".">>),
    ItemOf(<<"c","2">>, <<"T","e","x","t">>, <<"C","o","n","t","e","n","t">>, "Paragraph",
           <<"T","h","e"," ","c","a","t"," ","s","a","t"," ","o","n"," ","t","h","e"," ","m","a","t","."," ","I","t"," ","w","a","s"," ","h","a","p","p","y","!">>),
    ItemOf(<<"c","2">>, <<"T","e","x","t">>, <<"B","o","d","y">>, "RichText",
           <<"<","p",">","E","x","t","r","a","o","r","d","i","n","a","r","i","l","y"," ","s","o","p","h","i","s","t","i","c","a","t","e","d"," ","o","r","g","a","n","i","z","a","t","i","o","n","a","l"," ","r","e","s","p","o","n","s","i","b","i","l","i","t","i","e","s","<","/","p",">">>),
    ItemOf(<<"c","2">>, <<"T","e","x","t">>, <<"T","e","x","t">>, "Paragraph", <<".",".",".",".",".",".",".",".",".",".",".">>),
    ItemOf(<<"c","1">>, <<"H","e","r","o">>, <<"I","m","a","g","e">>, "Image", <<"A","l","t",":"," "," ","|"," ","S","r","c",":"," ","p","h","o","t","o",".","j","p","g">>),
    ItemOf(<<"c","1">>, <<"H","e","r","o">>, <<"P","h","o","t","o">>, "Image", <<"A","l","t",":"," ","A"," ","n","i","c","e"," ","p","h","o","t","o"," ","|"," ","S","r","c",":"," ","/","i","m","g","/","a",".","p","n","g">>),
    ItemOf(<<"c","1">>, <<"H","e","r","o">>, <<"I","c","o","n">>, "Image", <<"A","l","t",":"," ","P","i","c"," ","|"," ","S","r","c",":"," ","b",".","p","n","g">>),
    ItemOf(<<"c","1">>, <<"H","e","r","o">>, <<"L","i","n","k">>, "Link", <<"C","l","i","c","k"," ","h","e","r","e"," ","[","#","]">>),
    ItemOf(<<"c","1">>, <<"H","e","r","o">>, <<"C","t","a">>, "Link", <<"[","h","t","t","p",":","/","/","#","]">>),
    ItemOf(<<"c","2">>, <<"T","e","x","t">>, <<"U","r","l">>, "Link", <<"A","b","o","u","t"," ","[","/","a","b","o","u","t","]">>),
    ItemOf(<<"c","2">>, <<"T","e","x","t">>, <<"N","a","v">>, "Link", <<"D","o","c","s"," ","[","o","u","r"," ","d","o","c","s","]">>),
    ItemOf(<<"c","2">>, <<"T","e","x","t">>, <<"A","c","t","i","o","n">>, "Link", <<"O","p","e","n"," ","[","j","a","v","a","s","c","r","i","p","t",":","v","o","i","d","(","0",")","]">>),
    ItemOf(<<"c","2">>, <<"T","e","x","t">>, <<"M","e","n","u">>, "Link", <<"M","e","n","u"," ","[","/","m","e","n","u","#","j","a","v","a","s","c","r","i","p","t",":",";","]">>),
    ItemOf(<<"c","2">>, <<"T","e","x","t">>, <<"L","a","b","e","l">>, "Label", <<"N","e","w">>) }

ItemListInputs == UNION { [1..n -> ItemInputs] : n \in 0..MaxItems }

InitScan ==
  /\ pc = "scan"
  /\ pageContent = [ itemId |-> <<"p","a","g","e","-","1","2","3">>, name |-> <<"H","o","m","e">>, language |-> <<"e","n">>,
                     path |-> <<"/">>, components |-> <<>> ]
  /\ semanticItems \in ItemListInputs
  /\ pageData = Idle
  /\ scanResult = Idle
  /\ datasourceField = Idle
  /\ fieldInfo = Idle
  /\ pagesContext = Idle
  /\ searchBox = Idle
  /\ fieldName = Idle
  /\ fieldValue = Idle
  /\ fieldType = Idle
  /\ templateName = Idle
  /\ category = Idle

ScanPageContent ==
  /\ pc = "scan"
  /\ pageData' = scanPageContent(pageContent, semanticItems)
  /\ pc' = "scanned"
  /\ UNCHANGED <<datasourceField, fieldInfo, pagesContext, searchBox>>
  /\ UNCHANGED <<fieldName, fieldValue, fieldType, templateName, category,
                 pageContent, semanticItems, scanResult>>

ComputeSEOScore ==
  /\ pc = "scanned"
  /\ scanResult' = computeSEOScore(pageData)
  /\ pc' = "scored"
  /\ UNCHANGED <<datasourceField, fieldInfo, pagesContext, searchBox>>
  /\ UNCHANGED <<fieldName, fieldValue, fieldType, templateName, category,
                 pageContent, semanticItems, pageData>>

NextScan == ScanPageContent \/ ComputeSEOScore

SpecScan == InitScan /\ [][NextScan]_vars

-----------------------------------------------------------------------------
(* Scoring a PageData of any shape                                         *)

\* the scored pages hold at most MaxImages images
MaxImages == 2

\* the scored pages hold at most MaxLinks links
MaxLinks == 1

\* titles: none, blank, short, at the limit, just over it, half a point
\* over it, and so long that the credit is used up
TitleInputs ==
  { Absent, <<" "," "," ">>, <<"W","e","l","c","o","m","e">>, Repeat("t", 60), Repeat("t", 61),
    <<" ">> \o Repeat("t", 65) \o <<" ">>, Repeat("t", 161) }

\* descriptions: none, empty, short, at the limit, just over it, and so
\* long that the credit is used up
DescriptionInputs ==
  { Absent, <<>>, <<"A"," ","s","h","o","r","t"," ","d","e","s","c","r","i","p","t","i","o","n",".">>, Repeat("d", 165), Repeat("d", 166),
    Repeat("d", 270) }

\* h1: none, blank, present
H1Inputs == { Absent, <<" "," ">>, <<"H","e","l","l","o">> }

\* the body of a page: its text, the word count stored with it (0 where
\* the scorer has to count the words of the text itself, as it also does
\* when the count is omitted) and the readability score stored with it
BodyInputs ==
  { [ text |-> <<>>, wordCount |-> 0, readability |-> 0 ],
    [ text |-> <<"o","n","e"," ","<","b",">","t","w","o","<","/","b",">"," ","t","h","r","e","e">>, wordCount |-> 0, readability |-> 72 ],
    [ text |-> <<"b","o","d","y">>, wordCount |-> 12, readability |-> 59 ],
    [ text |-> <<"b","o","d","y">>, wordCount |-> 13, readability |-> 60 ],
    [ text |-> <<"b","o","d","y">>, wordCount |-> 249, readability |-> 100 ],
    [ text |-> <<"b","o","d","y">>, wordCount |-> 250, readability |-> 45 ] }

\* images without and with a usable alt text
ImageInputs ==
  { [ id |-> <<"c","1","-","I","m","a","g","e">>, alt |-> <<"P","i","c"," ">>, src |-> <<"a",".","p","n","g">>,
      componentId |-> <<"c","1">>, componentName |-> <<"H","e","r","o">>, fieldName |-> <<"I","m","a","g","e">>,
      path |-> <<<<"H","o","m","e">>, <<"H","e","r","o">>>> ],
    [ id |-> <<"c","1","-","P","h","o","t","o">>, alt |-> <<"A"," ","n","i","c","e"," ","p","h","o","t","o">>, src |-> <<"b",".","p","n","g">>,
      componentId |-> <<"c","1">>, componentName |-> <<"H","e","r","o">>, fieldName |-> <<"P","h","o","t","o">>,
      path |-> <<<<"H","o","m","e">>, <<"H","e","r","o">>>> ] }

\* links: a placeholder that is not flagged, a valid internal link, and a
\* link without href
LinkInputs ==
  { [ text |-> <<"C","l","i","c","k">>, href |-> <<"#">>, isPlaceholder |-> FALSE,
      isBroken |-> FALSE, componentId |-> <<"c","1">>, componentName |-> <<"H","e","r","o">>,
      fieldName |-> <<"L","i","n","k">>, path |-> <<<<"H","o","m","e">>, <<"H","e","r","o">>>> ],
    [ text |-> <<"A","b","o","u","t">>, href |-> <<"/","a","b","o","u","t">>, isPlaceholder |-> FALSE,
      isBroken |-> FALSE, componentId |-> <<"c","1">>, componentName |-> <<"H","e","r","o">>,
      fieldName |-> <<"U","r","l">>, path |-> <<<<"H","o","m","e">>, <<"H","e","r","o">>>> ],
    [ text |-> <<"G","o","n","e">>, href |-> <<>>, isPlaceholder |-> TRUE,
      isBroken |-> TRUE, componentId |-> <<"c","1">>, componentName |-> <<"H","e","r","o">>,
      fieldName |-> <<"N","a","v">>, path |-> <<<<"H","o","m","e">>, <<"H","e","r","o">>>> ] }

PageDataInputs ==
  { [ metadata   |-> [ title |-> t, description |-> d ],
      headings   |-> [ h1 |-> h, h2 |-> <<>>, h3 |-> <<>>,
                       all |-> IF h = Absent THEN <<>> ELSE <<h>> ],
      text       |-> b.text,
      images     |-> imgs,
      links      |-> lnks,
      wordCount  |-> b.wordCount,
      components |-> <<>>,
      metrics    |-> [ wordCount |-> b.wordCount,
                       characterCount |-> Len(b.text),
                       paragraphCount |-> IF Len(b.text) > 0 THEN 1 ELSE 0,
                       headingCount |-> IF h = Absent THEN 0 ELSE 1,
                       linkCount |-> Len(lnks),
                       imageCount |-> Len(imgs),
                       readability |-> [ score |-> b.readability ] ] ] :
    t \in TitleInputs, d \in DescriptionInputs, h \in H1Inputs,
    b \in BodyInputs,
    imgs \in UNION { [1..n -> ImageInputs] : n \in 0..MaxImages },
    lnks \in UNION { [1..n -> LinkInputs] : n \in 0..MaxLinks } }

InitScore ==
  /\ pc = "scanned"
  /\ pageData \in PageDataInputs
  /\ scanResult = Idle
  /\ datasourceField = Idle
  /\ fieldInfo = Idle
  /\ pagesContext = Idle
  /\ searchBox = Idle
  /\ pageContent = Idle
  /\ semanticItems = Idle
  /\ fieldName = Idle
  /\ fieldValue = Idle
  /\ fieldType = Idle
  /\ templateName = Idle
  /\ category = Idle

NextScore == ComputeSEOScore

SpecScore == InitScore /\ [][NextScore]_vars

-----------------------------------------------------------------------------
(* Properties of scanning and scoring                                      *)

\* C3: each of the four sub-scores of computeSEOScore lies within 0..25, and
\* seoScore is their (rounded) sum and lies within 0..100.
C3_ScoresInRange ==
  pc = "scored" =>
    LET b == scanResult.breakdown
    IN  /\ b.metadata \in 0..25
        /\ b.content \in 0..25
        /\ b.accessibility \in 0..25
        /\ b.links \in 0..25
        /\ scanResult.seoScore
             = b.metadata + b.content + b.accessibility + b.links
        /\ scanResult.seoScore \in 0..100

\* a page with images none of which has a usable alt text, and with full
\* metadata and content sub-scores, has been scored
C3_Witness ==
  /\ pc = "scored"
  /\ Len(pageData.images) > 0
  /\ scanResult.breakdown.accessibility = 0
  /\ scanResult.breakdown.metadata = 25
  /\ scanResult.breakdown.content = 25

\* C5: the readability score that the scanner computes lies within 0..100,
\* and a text without words gets the score 0 and the grade "N/A".
C5_ReadabilityInRange ==
  pc \in {"scanned", "scored"} =>
    LET m == pageData.metrics
    IN  /\ m.readability.score \in 0..100
        /\ m.wordCount = 0 =>
             (m.readability.score = 0 /\ m.readability.grade = "N/A")

\* a list of items that leaves no body text has been scanned
C5_Witness ==
  /\ pc = "scanned"
  /\ Len(semanticItems) > 0
  /\ pageData.metrics.wordCount = 0
  /\ pageData.metrics.readability.grade = "N/A"

\* C6 as stated: the metadata sub-score is the sum of the title credit (10
\* up to 60 characters, else 10 less 0.1 per character over 60, not below
\* 0), the like credit of the description with the limit 165, and 5 when
\* both are non-empty after trimming.  Tenths of a point are compared.
C6_MetadataIsSum ==
  pc = "scored" =>
    LET title == pageData.metadata.title
        desc  == pageData.metadata.description
        tl    == IF title = Absent THEN 0 ELSE Len(Trim(title))
        dl    == IF desc = Absent THEN 0 ELSE Len(Trim(desc))
        tc    == IF tl = 0 THEN 0 ELSE IF tl <= 60 THEN 100
                 ELSE IF tl > 160 THEN 0 ELSE 100 - (tl - 60)
        dc    == IF dl = 0 THEN 0 ELSE IF dl <= 165 THEN 100
                 ELSE IF dl > 265 THEN 0 ELSE 100 - (dl - 165)
        bonus == IF tl > 0 /\ dl > 0 THEN 50 ELSE 0
    IN  10 * scanResult.breakdown.metadata = tc + dc + bonus

\* C6: the metadata sub-score is the integer nearest to the sum of the title
\* credit (10 up to 60 characters, else 10 less 0.1 per character over 60,
\* not below 0), the like credit of the description with the limit 165, and
\* 5 when both are non-empty after trimming; a title of 7 characters with an
\* empty description scores exactly 10.  Tenths of a point are compared.
C6_MetadataIsRoundedSum ==
  pc = "scored" =>
    LET title == pageData.metadata.title
        desc  == pageData.metadata.description
        tl    == IF title = Absent THEN 0 ELSE Len(Trim(title))
        dl    == IF desc = Absent THEN 0 ELSE Len(Trim(desc))
        tc    == IF tl = 0 THEN 0 ELSE IF tl <= 60 THEN 100
                 ELSE IF tl > 160 THEN 0 ELSE 100 - (tl - 60)
        dc    == IF dl = 0 THEN 0 ELSE IF dl <= 165 THEN 100
                 ELSE IF dl > 265 THEN 0 ELSE 100 - (dl - 165)
        bonus == IF tl > 0 /\ dl > 0 THEN 50 ELSE 0
    IN  /\ 10 * scanResult.breakdown.metadata - (tc + dc + bonus) \in -5..5
        /\ (tl = 7 /\ dl = 0) => scanResult.breakdown.metadata = 10

\* a page whose title is one character too long and that has no description
\* has been scored: the sum is 9.9, the sub-score 10
C6_Witness ==
  /\ pc = "scored"
  /\ pageData.metadata.title # Absent
  /\ Len(Trim(pageData.metadata.title)) = 61
  /\ pageData.metadata.description = Absent
  /\ scanResult.breakdown.metadata = 10

\* C7: the content sub-score is 15 for an h1 that is not blank, plus 10 when
\* the word count is at least 250 and the integer nearest to
\* words / 250 * 10 when it is below 250.
C7_ContentRule ==
  pc = "scored" =>
    LET h     == pageData.headings.h1
        hc    == IF h # Absent /\ Len(Trim(h)) > 0 THEN 15 ELSE 0
        words == IF pageData.wordCount # 0 THEN pageData.wordCount
                 ELSE scorerCountWords(pageData.text)
    IN  IF words >= 250 THEN scanResult.breakdown.content = hc + 10
        ELSE \E c \in 0..10 :
               /\ 2 * (25 * c - words) \in -25..25
               /\ scanResult.breakdown.content = hc + c

\* a page with an h1 and exactly 250 words has been scored with the full 25
C7_Witness ==
  /\ pc = "scored"
  /\ pageData.wordCount = 250
  /\ pageData.headings.h1 = <<"H","e","l","l","o">>
  /\ scanResult.breakdown.content = 25

\* C8: the accessibility sub-score is 25 for a page without images and else
\* the rounding of 25 * (images whose trimmed alt text has at least 5
\* characters) / (images); an Image item with the text
\* "Alt:  | Src: photo.jpg" yields an image with alt "" and src "photo.jpg",
\* and alone it gives the sub-score 0.
C8_AccessibilityRule ==
  pc = "scored" =>
    LET images == pageData.images
        n      == Len(images)
        good   == Cardinality({k \in 1..n :
                     images[k].alt # Absent /\ Len(Trim(images[k].alt)) >= 5})
        score  == scanResult.breakdown.accessibility
        blank  == {k \in 1..Len(semanticItems) :
                     /\ semanticItems[k].category = "Image"
                     /\ semanticItems[k].text = <<"A","l","t",":"," "," ","|"," ","S","r","c",":"," ","p","h","o","t","o",".","j","p","g">>}
    IN  /\ IF n = 0 THEN score = 25
           ELSE 2 * n * score - 50 * good \in (1 - n)..n
        /\ \A k \in blank : \E j \in 1..n :
             /\ images[j].id = semanticItems[k].id
             /\ images[j].alt = <<>>
             /\ images[j].src = <<"p","h","o","t","o",".","j","p","g">>
        /\ (Len(semanticItems) = 1 /\ blank = {1}) => (n = 1 /\ score = 0)

\* the item "Alt:  | Src: photo.jpg" alone has been scanned and scored
C8_Witness ==
  /\ pc = "scored"
  /\ Len(semanticItems) = 1
  /\ semanticItems[1].text = <<"A","l","t",":"," "," ","|"," ","S","r","c",":"," ","p","h","o","t","o",".","j","p","g">>
  /\ Len(pageData.images) = 1
  /\ scanResult.breakdown.accessibility = 0

\* C9: every link whose href is "#" or "http://#" is flagged isPlaceholder
\* by the scanner, and its href is in the placeholderLinks issue list.
C9_PlaceholdersFlagged ==
  pc = "scored" =>
    \A k \in 1..Len(pageData.links) :
      LET link == pageData.links[k]
      IN  link.href \in {<<"#">>, <<"h","t","t","p",":","/","/","#">>} =>
            /\ link.isPlaceholder
            /\ \E j \in 1..Len(scanResult.issues.placeholderLinks) :
                 scanResult.issues.placeholderLinks[j] = link.href

\* a page with a link to "#" and a link to "http://#" has been scored
C9_Witness ==
  /\ pc = "scored"
  /\ \E k \in 1..Len(pageData.links) : pageData.links[k].href = <<"#">>
  /\ \E k \in 1..Len(pageData.links) : pageData.links[k].href = <<"h","t","t","p",":","/","/","#">>

-----------------------------------------------------------------------------
(* Properties of the classifier                                            *)

\* the template tier of classifyField returns
TemplateDecides ==
  templateName \notin {Undefined, ""} /\ TEMPLATE_PATTERNS(templateName) # Undefined

\* the declared-type tier of classifyField returns
TypeDecides ==
  /\ fieldType \notin {Undefined, ""}
  /\ (fieldType \in CategorySet \/ mapFieldTypeToCategory(fieldType) # "Other")

\* the categories one of whose field name patterns matches name
NameCategories(name) ==
  {cat \in CategorySet :
     \E i \in 1..Len(FIELD_PATTERNS(cat)) : Test(FIELD_PATTERNS(cat)[i], name, TRUE)}

\* whether one of the content patterns of cat matches value
ContentMatches(cat, value) ==
  \E i \in 1..Len(CONTENT_PATTERNS(cat)) :
     Test(CONTENT_PATTERNS(cat)[i][1], value, CONTENT_PATTERNS(cat)[i][2])

\* C11: when neither the template nor the declared type decides, a field
\* name that matches a Link or Button pattern yields that category whatever
\* the value is; a field name that matches another category yields that
\* category, unless the content analysis of the value gives RichText, and
\* then classifyField returns RichText.
C11_NameTier ==
  (pc = "classified" /\ ~TemplateDecides /\ ~TypeDecides) =>
    LET named == NameCategories(fieldName)
    IN  /\ named \cap {"Link", "Button"} # {}
          => category \in named \cap {"Link", "Button"}
        /\ (named # {} /\ named \cap {"Link", "Button"} = {})
          => IF classifyContent(fieldValue) = "RichText"
               THEN category = "RichText"
             ELSE category \in named

\* a Link name keeps its category over a RichText value, and a Heading name
\* gives way to it
C11_Witness ==
  /\ pc = "classified" /\ ~TemplateDecides /\ ~TypeDecides
  /\ \/ fieldName = <<"L","i","n","k","2">> /\ fieldValue = <<"<","p",">","H","T","M","L"," ","c","o","n","t","e","n","t","<","/","p",">">>
        /\ category = "Link"
     \/ fieldName = <<"T","i","t","l","e">> /\ fieldValue = <<"<","p",">","H","T","M","L"," ","c","o","n","t","e","n","t","<","/","p",">">>
        /\ category = "RichText"

\* C12: classifyFieldName gives RichText for each of the names RichText,
\* HTML and FormattedText.
C12_RichTextNames ==
  (pc = "classified" /\ fieldName \in {<<"R","i","c","h","T","e","x","t">>, <<"H","T","M","L">>, <<"F","o","r","m","a","t","t","e","d","T","e","x","t">>})
    => classifyFieldName(fieldName) = "RichText"

\* the category that the order Button, Heading, RichText, Link, Image of the
\* content patterns gives to value, none if no pattern matches
ContentOrder == <<"Button", "Heading", "RichText", "Link", "Image">>

FirstContentMatch(value) ==
  LET hits == {k \in 1..Len(ContentOrder) : ContentMatches(ContentOrder[k], value)}
  IN  IF hits = {} THEN Undefined ELSE ContentOrder[SetMin(hits)]

\* C13: classifyContent returns null for empty or white-space-only content,
\* and otherwise the first match in the order Button (a call-to-action
\* phrase), Heading (one heading tag around the content), RichText (a tag or
\* an entity), Link (a URL shape or a bracketed token), Image (a file
\* extension); it returns null when none matches.
C13_ContentOrder ==
  pc = "classified" =>
    classifyContent(fieldValue) =
      IF Len(Trim(fieldValue)) = 0 THEN Undefined ELSE FirstContentMatch(fieldValue)

\* a call-to-action phrase followed by a bracketed URL is a Button, not a Link
C13_Witness ==
  /\ pc = "classified" /\ ~TemplateDecides /\ ~TypeDecides
  /\ fieldName = <<"U","n","k","n","o","w","n","F","i","e","l","d">>
  /\ fieldValue = <<"R","e","a","d"," ","m","o","r","e"," ","[","h","t","t","p",":","/","/","#","]">>
  /\ ContentMatches("Link", fieldValue)
  /\ category = "Button"

\* C14: when no template, declared type, field name or content pattern
\* decides, classifyField returns Paragraph for a value of more than 50
\* characters and Label otherwise; 50 characters give Label.
C14_LengthFallback ==
  ( /\ pc = "classified" /\ ~TemplateDecides /\ ~TypeDecides
    /\ NameCategories(fieldName) = {}
    /\ \A cat \in CategorySet : ~ContentMatches(cat, fieldValue) )
  => category = IF Len(fieldValue) > 50 THEN "Paragraph" ELSE "Label"

\* a value of exactly 50 characters under a name that matches nothing
C14_Witness ==
  /\ pc = "classified" /\ ~TemplateDecides /\ ~TypeDecides
  /\ fieldName = <<"C","u","s","t","o","m","D","a","t","a">>
  /\ Len(fieldValue) = 50
  /\ \A cat \in CategorySet : ~ContentMatches(cat, fieldValue)
  /\ category = "Label"

-----------------------------------------------------------------------------
(* Properties of the extraction order                                      *)

\* the (component, field) pairs of the tree of page: the place of a
\* component and the index of one of its fields
FieldPlaces(page) ==
  UNION { { <<pos, j>> : j \in 1..Len(NodeAt(page.components, pos).fields) } :
          pos \in Positions(page.components) }

\* whether the place p of a component comes before the place q of another
\* one in document order: p is an ancestor of q, or p lies in an earlier
\* subtree than q where their ways part
ComponentBefore(p, q) ==
  \/ Len(p) < Len(q) /\ SubSeq(q, 1, Len(p)) = p
  \/ \E d \in 1..Len(p) :
       /\ d <= Len(q)
       /\ SubSeq(p, 1, d - 1) = SubSeq(q, 1, d - 1)
       /\ p[d] < q[d]

\* document order of (component, field) pairs
PlaceBefore(a, b) ==
  IF a[1] = b[1] THEN a[2] < b[2] ELSE ComponentBefore(a[1], b[1])

\* whether item is the item of the field at place pl of page
ItemOfPlace(page, item, pl) ==
  /\ item.metadata.componentId = NodeAt(page.components, pl[1]).id
  /\ item.metadata.fieldName = NodeAt(page.components, pl[1]).fields[pl[2]].name

\* C15: extractSemanticItems produces exactly one item per (component,
\* field) pair of the tree, in depth-first document order: the fields of a
\* component, in field order, come before the items of its descendants, and
\* the items of sibling components follow the order of the children arrays.
C15_DocumentOrder ==
  pc = "extracted" =>
    /\ \A pl \in FieldPlaces(pageContent) :
         Cardinality({k \in 1..Len(semanticItems) :
                        ItemOfPlace(pageContent, semanticItems[k], pl)}) = 1
    /\ \A k \in 1..Len(semanticItems) :
         \E pl \in FieldPlaces(pageContent) :
            ItemOfPlace(pageContent, semanticItems[k], pl)
    /\ \A k, l \in 1..Len(semanticItems) :
         \A a, b \in FieldPlaces(pageContent) :
            ( /\ k < l
              /\ ItemOfPlace(pageContent, semanticItems[k], a)
              /\ ItemOfPlace(pageContent, semanticItems[l], b) )
            => PlaceBefore(a, b)

\* a component with two fields and a child, followed by a sibling: the two
\* fields, then the child's item, then the sibling's item
C15_Witness ==
  /\ pc = "extracted"
  /\ Len(semanticItems) = 4
  /\ semanticItems[1].metadata.componentId = <<"c","1">>
  /\ semanticItems[2].metadata.componentId = <<"c","1">>
  /\ semanticItems[3].metadata.componentId = <<"c","1",".","1">>
  /\ semanticItems[4].metadata.componentId = <<"c","2">>

-----------------------------------------------------------------------------
(* pagesContextParser.ts: conversion of a datasource field                 *)
(*                                                                         *)
(* A datasource field is a record [name, value, jsonValue].  value is a    *)
(* string or Absent.  jsonValue is absent or an object; an object is       *)
(* modelled by the properties the code reads, each a string or Absent,     *)
(* written in the order of PropertyOrder.  The value property of jsonValue *)
(* is absent, a string, or an object of the same properties.  A FieldInfo  *)
(* or null is modelled by a list: empty for null, else holding the         *)
(* FieldInfo.                                                              *)

\* the properties of a value object that the code reads, apart from type
PropertyOrder ==
  << "text", "textValue", "linkText", "href", "url", "linkUrl", "title",
     "src", "alt", "altText" >>

\* the characters of a property name
PropertyChars(key) ==
  CASE key = "text"      -> <<"t","e","x","t">>
    [] key = "textValue" -> <<"t","e","x","t","V","a","l","u","e">>
    [] key = "linkText"  -> <<"l","i","n","k","T","e","x","t">>
    [] key = "href"      -> <<"h","r","e","f">>
    [] key = "url"       -> <<"u","r","l">>
    [] key = "linkUrl"   -> <<"l","i","n","k","U","r","l">>
    [] key = "title"     -> <<"t","i","t","l","e">>
    [] key = "src"       -> <<"s","r","c">>
    [] key = "alt"       -> <<"a","l","t">>
    [] key = "altText"   -> <<"a","l","t","T","e","x","t">>

\* an object none of whose properties is set
NoProperties == [ key \in Range(PropertyOrder) |-> Absent ]

\* a JavaScript value that is absent, a string, or an object
AbsentValue       == [ kind |-> "absent", str |-> <<>>, props |-> NoProperties ]
StringValue(s)    == [ kind |-> "string", str |-> s, props |-> NoProperties ]
ObjectValue(props) == [ kind |-> "object", str |-> <<>>, props |-> props ]

\* jsonValue: absent, or an object with a value property, a type property
\* (a declared type, Undefined if not set) and further properties
NoJsonValue ==
  [ kind |-> "absent", value |-> AbsentValue, type |-> Undefined,
    props |-> NoProperties ]
JsonObject(value, type, props) ==
  [ kind |-> "object", value |-> value, type |-> type, props |-> props ]

\* a string that is neither undefined nor empty
Truthy(s) == s # Absent /\ Len(s) > 0

\* a || b on strings
OrElse(a, b) == IF Truthy(a) THEN a ELSE b

\* a || '' on a string
OrEmpty(a) == IF Truthy(a) THEN a ELSE <<>>

\* a link parsed from the markup form, or null: empty for null, else one
\* record [text, url, title]
NoLink == <<>>

\* \s*\/?> at the end of /<Link\s+([^>]+)\s*\/?>/i
LinkXmlTail == Cat(<<Star(Space), Opt(Lit(<<"/">>)), Lit(<<">">>)>>)

\* the offsets at which the group [^>]+ that starts at offset w of t can end
\* so that the rest of the pattern matches
LinkXmlGroupEnds(t, w) ==
  {g \in Ends(Plus(NotCls({">"})), t, w) : Ends(LinkXmlTail, t, g) # {}}

\* xmlString.match(/<Link\s+([^>]+)\s*\/?>/i): the captured attributes of
\* the leftmost match; \s+ takes as much white space as leaves a match, and
\* then the group takes as much as leaves a match
LinkXmlAttributes(xmlString) ==
  LET t == ToLower(xmlString)
      Capture(w) == <<SubSeq(xmlString, w + 1, SetMax(LinkXmlGroupEnds(t, w)))>>
      After(q) ==
        Capture(SetMax({w \in Ends(Plus(Space), t, q) :
                          LinkXmlGroupEnds(t, w) # {}}))
      From(starts) ==
        IF starts = {} THEN NoMatch ELSE After(SetMin(starts) + Len(<<"<","l","i","n","k">>))
  IN  From({p \in 0..Len(t) :
              Ends(Cat(<<Lit(<<"<","l","i","n","k">>), Plus(Space), Plus(NotCls({">"})),
                         LinkXmlTail>>), t, p) # {}})

\* ["']
Quote == Cls({"\"", "'"})

\* attributes.match(/<attr>=["']([^"']+)["']/i), attr being given with its
\* = sign: the captured value of the leftmost match
AttributeMatch(attr, attributes) ==
  LET t == ToLower(attributes)
      Capture(b) ==
        <<SubSeq(attributes, b + 1,
                 SetMax({g \in Ends(Plus(NotCls({"\"", "'"})), t, b) :
                           Ends(Quote, t, g) # {}}))>>
      From(starts) ==
        IF starts = {} THEN NoMatch
        ELSE Capture(SetMin(starts) + Len(attr) + 1)
  IN  From({p \in 0..Len(t) :
              Ends(Cat(<<Lit(attr), Quote, Plus(NotCls({"\"", "'"})), Quote>>),
                   t, p) # {}})

\* match ? match[1] : ''
GroupOrEmpty(match) == IF match = NoMatch THEN <<>> ELSE match[1]

\* match ? match[1] : undefined
GroupOrUndefined(match) == IF match = NoMatch THEN Absent ELSE match[1]

\* parseSitecoreLinkXML
parseSitecoreLinkXML(xmlString) ==
  LET Link(text, url, title) ==
        IF Len(text) = 0 /\ Len(url) = 0 THEN NoLink
        ELSE << [ text |-> text, url |-> url, title |-> title ] >>
      Of(linkMatch) ==
        IF linkMatch = NoMatch THEN NoLink
        ELSE Link(GroupOrEmpty(AttributeMatch(<<"t","e","x","t","=">>, linkMatch[1])),
                  GroupOrEmpty(AttributeMatch(<<"u","r","l","=">>, linkMatch[1])),
                  GroupOrUndefined(AttributeMatch(<<"t","i","t","l","e","=">>, linkMatch[1])))
  IN  IF Len(xmlString) = 0 THEN NoLink ELSE Of(LinkXmlAttributes(xmlString))

\* the text, the title in parentheses and the URL in brackets, those that
\* are present, joined by a space: the link encoding
LinkParts(linkText, linkTitle, linkUrl) ==
  (IF Len(linkText) > 0 THEN <<linkText>> ELSE <<>>)
    \o (IF Len(linkTitle) > 0 THEN <<<<"(">> \o linkTitle \o <<")">>>> ELSE <<>>)
    \o (IF Len(linkUrl) > 0 /\ Len(Trim(linkUrl)) > 0
          THEN <<<<"[">> \o linkUrl \o <<"]">>>> ELSE <<>>)

\* parts.length > 0 ? parts.join(' ') : (linkText || linkUrl)
LinkValue(linkText, linkTitle, linkUrl) ==
  IF Len(LinkParts(linkText, linkTitle, linkUrl)) > 0
    THEN Join(LinkParts(linkText, linkTitle, linkUrl), <<" ">>)
  ELSE OrElse(linkText, linkUrl)

\* jsonValue.value || jsonValue
ActualValue(jsonValue) ==
  IF jsonValue.value.kind = "object" THEN jsonValue.value
  ELSE IF jsonValue.value.kind = "string" /\ Len(jsonValue.value.str) > 0
    THEN jsonValue.value
  ELSE ObjectValue(jsonValue.props)

\* the characters of a declared type that jsonValue.type holds
TypeChars(type) ==
  CASE type = "Rich Text"        -> <<"R","i","c","h"," ","T","e","x","t">>
    [] type = "Single-Line Text" -> <<"S","i","n","g","l","e","-","L","i","n","e"," ","T","e","x","t">>
    [] type = "Multi-Line Text"  -> <<"M","u","l","t","i","-","L","i","n","e"," ","T","e","x","t">>
    [] type = "General Link"     -> <<"G","e","n","e","r","a","l"," ","L","i","n","k">>
    [] type = "Image"            -> <<"I","m","a","g","e">>
    [] OTHER                     -> <<"u","n","k","n","o","w","n">>

\* "key":"value"
JsonMember(key, str) == <<"\"">> \o key \o <<"\"",":","\"">> \o str \o <<"\"">>

\* the members that JSON.stringify writes for the properties of an object;
\* the strings of the modelled inputs need no escaping
RECURSIVE JsonMembers(_, _)
JsonMembers(props, k) ==
  IF k > Len(PropertyOrder) THEN <<>>
  ELSE (IF props[PropertyOrder[k]] = Absent THEN <<>>
        ELSE <<JsonMember(PropertyChars(PropertyOrder[k]),
                          props[PropertyOrder[k]])>>)
         \o JsonMembers(props, k + 1)

\* JSON.stringify(actualValue) where actualValue is an object: the inner
\* object of jsonValue, or jsonValue itself with its value and type members
JsonStringify(jsonValue) ==
  IF jsonValue.value.kind = "object"
    THEN <<"{">> \o Join(JsonMembers(jsonValue.value.props, 1), <<",">>) \o <<"}">>
  ELSE <<"{">>
         \o Join((IF jsonValue.value.kind = "string"
                    THEN <<JsonMember(<<"v","a","l","u","e">>, jsonValue.value.str)>> ELSE <<>>)
                 \o (IF jsonValue.type = Undefined THEN <<>>
                     ELSE <<JsonMember(<<"t","y","p","e">>, TypeChars(jsonValue.type))>>)
                 \o JsonMembers(jsonValue.props, 1), <<",">>)
         \o <<"}">>

\* /^link\d*$/i.test(name) || name.toLowerCase().includes('link')
isLinkFieldByName(name) ==
  \/ Test(Cat(<<Bol, Lit(<<"l","i","n","k">>), Star(Digit), Eol>>), name, TRUE)
  \/ Includes(ToLower(name), <<"l","i","n","k">>)

\* /description|desc|text|content|body/i.test(name)
isDescriptionField(name) ==
  Test(Alt(<<Lit(<<"d","e","s","c","r","i","p","t","i","o","n">>), Lit(<<"d","e","s","c">>), Lit(<<"t","e","x","t">>), Lit(<<"c","o","n","t","e","n","t">>),
             Lit(<<"b","o","d","y">>)>>), name, TRUE)

\* null, or the FieldInfo of a converted field
NoField == <<>>

FieldInfo(name, value, type) ==
  << [ name |-> name, value |-> value, type |-> type,
       category |-> classifyField(name, value, type, Undefined) ] >>

\* the state of convertDatasourceFieldToComponentField after its branches:
\* either it has returned a result, or fieldValue and fieldType are set
Returned(result) ==
  [ returned |-> TRUE, result |-> result, fieldValue |-> <<>>,
    fieldType |-> "unknown" ]
Assigned(value, type) ==
  [ returned |-> FALSE, result |-> NoField, fieldValue |-> value,
    fieldType |-> type ]

\* the text, title and URL of the link branch of an object jsonValue
LinkTextOf(actualValue, parsedLinkFromValue) ==
  IF parsedLinkFromValue # NoLink THEN OrEmpty(parsedLinkFromValue[1].text)
  ELSE IF actualValue.kind # "object" THEN <<>>
  ELSE OrElse(actualValue.props["text"],
              OrElse(actualValue.props["textValue"],
                     OrEmpty(actualValue.props["linkText"])))

LinkUrlOf(actualValue, parsedLinkFromValue) ==
  IF parsedLinkFromValue # NoLink THEN OrEmpty(parsedLinkFromValue[1].url)
  ELSE IF actualValue.kind # "object" THEN <<>>
  ELSE OrElse(actualValue.props["href"],
              OrElse(actualValue.props["url"],
                     OrEmpty(actualValue.props["linkUrl"])))

LinkTitleOf(actualValue, parsedLinkFromValue) ==
  IF parsedLinkFromValue # NoLink THEN OrEmpty(parsedLinkFromValue[1].title)
  ELSE IF actualValue.kind # "object" THEN <<>>
  ELSE OrEmpty(actualValue.props["title"])

\* the condition of the link branch
LinkBranch(name, actualValue, parsedLinkFromValue) ==
  \/ isLinkFieldByName(name)
  \/ actualValue.kind = "object" /\ actualValue.props["href"] # Absent
  \/ actualValue.kind = "object" /\ actualValue.props["url"] # Absent
  \/ parsedLinkFromValue # NoLink

\* imageSrc || ''
ImageSrc(actualValue) ==
  IF actualValue.kind = "object" THEN OrEmpty(actualValue.props["src"]) ELSE <<>>

\* actualValue?.alt || actualValue?.altText || ''
ImageAlt(actualValue) ==
  OrElse(actualValue.props["alt"], OrEmpty(actualValue.props["altText"]))

\* a variant of the condition of the image branch that ignores the name
ImageBranch_byShape(name, actualValue) ==
  /\ Len(ImageSrc(actualValue)) > 0 \/ Includes(ToLower(name), <<"i","m","a","g","e">>)
  /\ actualValue.kind = "object"

\* the condition of the image branch
ImageBranch(name, actualValue) ==
  /\ Len(ImageSrc(actualValue)) > 0 \/ Includes(ToLower(name), <<"i","m","a","g","e">>)
  /\ ~isLinkFieldByName(name)
  /\ actualValue.kind = "object"

\* the image branch
ImageField(name, alt, src) ==
  LET parts == (IF Len(alt) > 0 THEN <<<<"A","l","t",":"," ">> \o alt>> ELSE <<>>)
                 \o (IF Len(src) > 0 THEN <<<<"S","r","c",":"," ">> \o src>> ELSE <<>>)
  IN  IF Len(parts) > 0 THEN Assigned(Join(parts, <<" ","|"," ">>), "Image")
      ELSE IF Includes(ToLower(name), <<"i","m","a","g","e">>)
        THEN Assigned(<<"[","I","m","a","g","e"," ","f","i","e","l","d"," ","-"," ","n","o"," ","s","r","c","]">>, "Image")
      ELSE Returned(NoField)

\* the branches below the link branch for an object jsonValue
BelowLinkBranch(name, jsonValue, actualValue) ==
  IF ImageBranch(name, actualValue)
    THEN ImageField(name, ImageAlt(actualValue), ImageSrc(actualValue))
  ELSE IF actualValue.kind = "string"
    THEN Assigned(actualValue.str,
                  IF jsonValue.type \in {Undefined, ""} THEN "Rich Text"
                  ELSE jsonValue.type)
  ELSE Assigned(JsonStringify(jsonValue), "JSON")

\* the branch for an object jsonValue
ObjectBranch(name, jsonValue, actualValue, parsedLinkFromValue) ==
  LET Link(linkText, linkTitle, linkUrl) ==
        IF Len(linkText) > 0 \/ Len(linkUrl) > 0
          THEN Returned(FieldInfo(name, LinkValue(linkText, linkTitle, linkUrl),
                                  "Link"))
        ELSE BelowLinkBranch(name, jsonValue, actualValue)
  IN  IF LinkBranch(name, actualValue, parsedLinkFromValue)
        THEN Link(LinkTextOf(actualValue, parsedLinkFromValue),
                  LinkTitleOf(actualValue, parsedLinkFromValue),
                  LinkUrlOf(actualValue, parsedLinkFromValue))
      ELSE BelowLinkBranch(name, jsonValue, actualValue)

\* value && typeof value === 'string' && value.trim().startsWith('<Link')
IsLinkXml(value) == Truthy(value) /\ StartsWith(Trim(value), <<"<","L","i","n","k">>)

\* the branch for a value without an object jsonValue
ValueBranch(value) ==
  LET Parsed(parsedLink) ==
        IF parsedLink # NoLink
          THEN Assigned(LinkValue(parsedLink[1].text,
                                  OrEmpty(parsedLink[1].title),
                                  parsedLink[1].url), "Link")
        ELSE Assigned(value, "Single-Line Text")
  IN  IF IsLinkXml(value) THEN Parsed(parseSitecoreLinkXML(value))
      ELSE Assigned(value, "Single-Line Text")

\* the end of convertDatasourceFieldToComponentField: empty values
Finish(name, value, type) ==
  LET isEmpty == Len(value) = 0 \/ Len(Trim(value)) = 0
  IN  IF isEmpty /\ ~isDescriptionField(name) /\ type \notin {"Image", "Link"}
        THEN NoField
      ELSE IF type = "Link" /\ isEmpty THEN NoField
      ELSE FieldInfo(name,
                     IF isEmpty /\ isDescriptionField(name) THEN <<"[","E","m","p","t","y","]">>
                     ELSE value,
                     type)

\* convertDatasourceFieldToComponentField
convertDatasourceFieldToComponentField(field) ==
  LET name      == field.name
      value     == field.value
      jsonValue == field.jsonValue
      End(state) ==
        IF state.returned THEN state.result
        ELSE Finish(name, state.fieldValue, state.fieldType)
  IN  IF StartsWith(name, <<"_","_">>) THEN NoField
      ELSE IF ~Truthy(value) /\ jsonValue.kind = "absent" THEN NoField
      ELSE IF jsonValue.kind = "object"
        THEN End(ObjectBranch(name, jsonValue, ActualValue(jsonValue),
                              IF IsLinkXml(value) THEN parseSitecoreLinkXML(value)
                              ELSE NoLink))
      ELSE IF Truthy(value) THEN End(ValueBranch(value))
      ELSE End(Assigned(<<>>, "unknown"))

-----------------------------------------------------------------------------
(* Conversion of one datasource field                                      *)

\* field names: link-like names, an image name, description-like names, a
\* system name and names of neither kind
DatasourceNameInputs ==
  { <<"L","i","n","k">>, <<"L","i","n","k","1">>, <<"L","i","n","k","2">>, <<"C","t","a","L","i","n","k">>, <<"I","m","a","g","e">>, <<"D","e","s","c","r","i","p","t","i","o","n">>, <<"B","o","d","y">>,
    <<"T","i","t","l","e">>, <<"P","h","o","t","o">>, <<"_","_","R","e","v","i","s","i","o","n">> }

\* value strings: absent, empty, blank, plain text and the markup form of a
\* link with and without text and URL
DatasourceValueInputs ==
  { Absent, <<>>, <<" "," "," ">>, <<"H","e","l","l","o">>, <<"<","L","i","n","k"," ","t","e","x","t","=","\"","H","o","m","e","\""," ","u","r","l","=","\"","/","h","o","m","e","\""," ","/",">">>,
    <<"<","L","i","n","k"," ","u","r","l","=","\"","#","\""," ","t","i","t","l","e","=","\"","T","o","p","\"","/",">">>, <<"<","L","i","n","k"," ","t","e","x","t","=","\"","\""," ","u","r","l","=","\""," ","\""," ","/",">">>, <<"<","L","i","n","k"," ","/",">">> }

\* value objects: none, an image, a link that also has a src, a string
\* value, a nested link, an empty object, a blank string value, a nested
\* image
JsonValueInputs ==
  { NoJsonValue,
    JsonObject(AbsentValue, Undefined,
               [NoProperties EXCEPT !["src"] = <<"a",".","p","n","g">>, !["alt"] = <<"L","o","g","o">>]),
    JsonObject(AbsentValue, Undefined,
               [NoProperties EXCEPT !["href"] = <<"/","a","b","o","u","t">>, !["text"] = <<"A","b","o","u","t">>,
                                    !["src"] = <<"a",".","p","n","g">>]),
    JsonObject(StringValue(<<"R","i","c","h"," ","<","b",">","t","e","x","t","<","/","b",">">>), "Rich Text", NoProperties),
    JsonObject(ObjectValue([NoProperties EXCEPT !["href"] = <<"#">>,
                                                !["text"] = <<>>]),
               Undefined, NoProperties),
    JsonObject(AbsentValue, Undefined, NoProperties),
    JsonObject(StringValue(<<" "," ">>), Undefined, NoProperties),
    JsonObject(ObjectValue([NoProperties EXCEPT !["src"] = <<"b",".","p","n","g">>]),
               "Image", NoProperties) }

InitConvert ==
  /\ pc = "convert"
  /\ datasourceField \in [ name : DatasourceNameInputs,
                           value : DatasourceValueInputs,
                           jsonValue : JsonValueInputs ]
  /\ fieldInfo = Idle
  /\ pagesContext = Idle
  /\ searchBox = Idle
  /\ fieldName = Idle
  /\ fieldValue = Idle
  /\ fieldType = Idle
  /\ templateName = Idle
  /\ category = Idle
  /\ pageContent = Idle
  /\ semanticItems = Idle
  /\ pageData = Idle
  /\ scanResult = Idle

ConvertDatasourceField ==
  /\ pc = "convert"
  /\ fieldInfo' = convertDatasourceFieldToComponentField(datasourceField)
  /\ pc' = "converted"
  /\ UNCHANGED <<datasourceField, pagesContext, searchBox>>
  /\ UNCHANGED <<fieldName, fieldValue, fieldType, templateName, category,
                 pageContent, semanticItems, pageData, scanResult>>

NextConvert == ConvertDatasourceField

SpecConvert == InitConvert /\ [][NextConvert]_vars

\* a converted field whose name is link-like and whose jsonValue is an object
LinkNamedObjectField ==
  /\ pc = "converted"
  /\ ~StartsWith(datasourceField.name, <<"_","_">>)
  /\ isLinkFieldByName(datasourceField.name)
  /\ datasourceField.jsonValue.kind = "object"

\* the link parsed from the markup form in value, if there is one
ParsedFromValue ==
  IF IsLinkXml(datasourceField.value)
    THEN parseSitecoreLinkXML(datasourceField.value)
  ELSE NoLink

\* the link text and the link URL that the link branch finds for the field
FoundLinkText ==
  LinkTextOf(ActualValue(datasourceField.jsonValue), ParsedFromValue)
FoundLinkUrl ==
  LinkUrlOf(ActualValue(datasourceField.jsonValue), ParsedFromValue)
FoundLinkTitle ==
  LinkTitleOf(ActualValue(datasourceField.jsonValue), ParsedFromValue)

BlankValue(value) == value = Absent \/ Len(Trim(value)) = 0

\* C18: a field with an empty or white-space-only value is dropped, except
\* that a field classified Link or Image is kept and a description-like
\* field is kept with the marker [Empty] as its value.
C18_EmptyValueRule ==
  ( /\ pc = "converted"
    /\ ~StartsWith(datasourceField.name, <<"_","_">>)
    /\ datasourceField.jsonValue.kind = "absent"
    /\ BlankValue(datasourceField.value) )
  => IF isDescriptionField(datasourceField.name)
       THEN fieldInfo # NoField /\ fieldInfo[1].value = <<"[","E","m","p","t","y","]">>
     ELSE IF classifyFieldName(datasourceField.name) \in {"Link", "Image"}
       THEN fieldInfo # NoField
     ELSE fieldInfo = NoField

-----------------------------------------------------------------------------
(* pagesContextParser.ts: the canonical tree of a Pages context            *)

\* A raw value of the upstream context is a record with a kind: "null" for
\* null or undefined, "object" (or "array") for a value that is there.  A
\* property that is not set holds Absent; a list that is not set is empty.

\* the outcome of a call: it threw, or it returned the values of a list
Threw == [ thrown |-> TRUE, value |-> <<>> ]
Gave(value) == [ thrown |-> FALSE, value |-> value ]

\* try { return ... } catch { return null } followed by the filter of the
\* nulls, and try { ... } catch { } around a push
Caught(outcome) == IF outcome.thrown THEN <<>> ELSE outcome.value

\* `${index}` for the indices of the modelled lists
IndexChars(index) == <<<<"0","1","2","3","4","5","6","7","8","9">>[index + 1]>>

\* isSystemField of pagesContextParser.ts
SystemFieldNames ==
  { <<"_","_","t","y","p","e","n","a","m","e">>, <<"i","d">>, <<"u","i","d">>, <<"k","e","y">>, <<"n","a","m","e">>, <<"d","i","s","p","l","a","y","N","a","m","e">>, <<"c","o","m","p","o","n","e","n","t","N","a","m","e">>,
    <<"d","a","t","a","S","o","u","r","c","e">>, <<"d","a","t","a","s","o","u","r","c","e","I","d">>, <<"p","a","r","a","m","s">>, <<"p","a","r","a","m","e","t","e","r","s">>, <<"p","l","a","c","e","h","o","l","d","e","r","s">>,
    <<"c","h","i","l","d","r","e","n">> }

isSystemField(name) == name \in SystemFieldNames

\* the value and type that the loop body of extractFieldsFromComponent
\* computes for one entry of component.fields.  The kinds of entry: a string;
\* an object with a value property and perhaps a type; an object with a src
\* string; an object with a href string; an object whose src is a number,
\* for which value.trim() throws a TypeError
ParseField(entry) ==
  LET Push(value, type) ==
        IF Len(Trim(value)) = 0 THEN Gave(<<>>)
        ELSE Gave(<< [ name     |-> entry.name,
                       value    |-> value,
                       type     |-> type,
                       category |-> classifyField(entry.name, value, type,
                                                  Undefined) ] >>)
  IN  IF isSystemField(entry.name) THEN Gave(<<>>)
      ELSE IF entry.kind = "string" THEN Push(entry.str, "unknown")
      ELSE IF entry.kind = "valueObject"
        THEN Push(entry.str,
                  IF entry.type \in {Undefined, ""} THEN "unknown"
                  ELSE entry.type)
      ELSE IF entry.kind = "srcObject" THEN Push(entry.str, "Image")
      ELSE IF entry.kind = "hrefObject" THEN Push(entry.str, "Link")
      ELSE Threw

\* the loop of extractFieldsFromComponent: an entry that throws is skipped
RECURSIVE FieldsFrom(_)
FieldsFrom(entries) ==
  IF Len(entries) = 0 THEN <<>>
  ELSE Caught(ParseField(entries[1])) \o FieldsFrom(Tail(entries))

\* extractFieldsFromComponent
extractFieldsFromComponent(component) == FieldsFrom(component.fields)

RECURSIVE parseComponent(_, _, _, _)
RECURSIVE PlaceholderFrom(_, _, _, _)
RECURSIVE NestedPlaceholders(_, _)
RECURSIVE ChildrenFrom(_, _, _)

\* components.map(...) of parsePlaceholderComponents from index on
PlaceholderFrom(components, placeholderKey, parentPath, index) ==
  IF index >= Len(components) THEN <<>>
  ELSE Caught(parseComponent(components[index + 1], parentPath, index,
                             placeholderKey))
         \o PlaceholderFrom(components, placeholderKey, parentPath, index + 1)

\* parsePlaceholderComponents
parsePlaceholderComponents(components, placeholderKey, parentPath) ==
  PlaceholderFrom(components, placeholderKey, parentPath, 0)

\* the loop over Object.entries(component.placeholders)
NestedPlaceholders(placeholders, path) ==
  IF Len(placeholders) = 0 THEN <<>>
  ELSE parsePlaceholderComponents(placeholders[1].components,
                                  placeholders[1].key, path)
         \o NestedPlaceholders(Tail(placeholders), path)

\* component.children.map(...) of parseComponent from idx on
ChildrenFrom(children, path, idx) ==
  IF idx >= Len(children) THEN <<>>
  ELSE Caught(parseComponent(children[idx + 1], path, idx, Absent))
         \o ChildrenFrom(children, path, idx + 1)

\* parseComponent: reading a property of null throws a TypeError
parseComponent(component, parentPath, index, placeholderKey) ==
  LET Node(componentName, path) ==
        [ id            |-> OrElse(component.uid,
                              OrElse(component.id,
                                OrElse(component.key,
                                  OrElse(placeholderKey, <<"c","o","m","p">>) \o <<"-">>
                                    \o IndexChars(index)))),
          name          |-> OrElse(component.displayName, componentName),
          componentName |-> componentName,
          type          |-> OrElse(component.componentName, <<"C","o","m","p","o","n","e","n","t">>),
          datasourceId  |-> OrElse(component.dataSource,
                                   component.datasourceId),
          placeholder   |-> placeholderKey,
          params        |-> OrElse(component.params, component.parameters),
          fields        |-> extractFieldsFromComponent(component),
          children      |-> NestedPlaceholders(component.placeholders, path)
                              \o ChildrenFrom(component.children, path, 0),
          path          |-> path ]
      Named(componentName) ==
        Node(componentName, Append(parentPath, componentName))
  IN  IF component.kind = "null" THEN Threw
      ELSE Gave(<< Named(OrElse(component.componentName,
                           OrElse(component.name,
                             OrElse(component.displayName,
                               <<"C","o","m","p","o","n","e","n","t","-">> \o IndexChars(index))))) >>)

\* extractComponentNameFromDatasource
extractComponentNameFromDatasource(datasourcePath) ==
  LET Last(segments) == segments[Len(segments)]
      Clean(path) ==
        IF StartsWith(path, <<"l","o","c","a","l",":">>) THEN SubSeq(path, 7, Len(path))
        ELSE path
  IN  IF ~Truthy(datasourcePath) THEN <<>>
      ELSE Last(Split(Lit(<<"/">>), Clean(datasourcePath)))

\* parseRenderingFromPresentationDetails
parseRenderingFromPresentationDetails(rendering, index, parentPath) ==
  LET Node(datasourcePath, componentName) ==
        [ id            |-> OrElse(rendering.instanceId,
                              OrElse(rendering.id,
                                     <<"r","e","n","d","e","r","i","n","g","-">> \o IndexChars(index))),
          name          |-> componentName,
          componentName |-> componentName,
          type          |-> <<"R","e","n","d","e","r","i","n","g">>,
          datasourceId  |-> datasourcePath,
          placeholder   |-> OrElse(rendering.placeholderKey, <<"m","a","i","n">>),
          params        |-> OrEmpty(rendering.parameters),
          fields        |-> IF Truthy(datasourcePath)
                              THEN << [ name     |-> <<"D","a","t","a","S","o","u","r","c","e">>,
                                        value    |-> datasourcePath,
                                        type     |-> "Reference",
                                        category |-> "Label" ] >>
                            ELSE <<>>,
          children      |-> <<>>,
          path          |-> Append(parentPath, componentName) ]
      With(datasourcePath) ==
        Node(datasourcePath,
             OrElse(extractComponentNameFromDatasource(datasourcePath),
               OrElse(rendering.renderingName,
                      <<"C","o","m","p","o","n","e","n","t"," ">>  \o IndexChars(index + 1))))
  IN  IF rendering.kind = "null" THEN Threw
      ELSE Gave(<< With(OrEmpty(rendering.dataSource)) >>)

\* an array map whose callback is not guarded: it throws as soon as one
\* callback throws, and returns the list of the results otherwise
Sequel(first, rest) ==
  IF first.thrown \/ rest.thrown THEN Threw
  ELSE Gave(first.value \o rest.value)

\* device.renderings.map(...) from idx on
RECURSIVE RenderingsFrom(_, _, _)
RenderingsFrom(renderings, idx, parentPath) ==
  IF idx >= Len(renderings) THEN Gave(<<>>)
  ELSE Sequel(parseRenderingFromPresentationDetails(renderings[idx + 1], idx,
                                                    parentPath),
              RenderingsFrom(renderings, idx + 1, parentPath))

\* the loop over presentationData.devices inside the try block: a throw
\* leaves the loop, and what was pushed for the devices before stays
RECURSIVE DevicesFrom(_, _, _)
DevicesFrom(devices, parentPath, components) ==
  LET After(renderings) ==
        IF renderings.thrown THEN components
        ELSE DevicesFrom(Tail(devices), parentPath,
                         components \o renderings.value)
  IN  IF Len(devices) = 0 THEN components
      ELSE After(RenderingsFrom(devices[1].renderings, 0, parentPath))

\* contextComponents.map(...) from idx on
RECURSIVE ContextComponentsFrom(_, _, _)
ContextComponentsFrom(contextComponents, idx, parentPath) ==
  IF idx >= Len(contextComponents) THEN Gave(<<>>)
  ELSE Sequel(parseComponent(contextComponents[idx + 1], parentPath, idx,
                             Absent),
              ContextComponentsFrom(contextComponents, idx + 1, parentPath))

\* [pagesContext.pageInfo?.name || "Page"]
RootPath(context) ==
  << IF context.pageInfo.kind = "null" THEN <<"P","a","g","e">>
     ELSE OrElse(context.pageInfo.name, <<"P","a","g","e">>) >>

\* option 1: the renderings of the devices of presentationDetails; a string
\* that is no JSON makes JSON.parse throw inside the try block
FromPresentationDetails(context, components) ==
  IF context.pageInfo.presentationDetails.kind = "malformed" THEN components
  ELSE DevicesFrom(context.pageInfo.presentationDetails.devices,
                   RootPath(context), components)

\* option 2: the placeholders of the route of the rendered layout
FromRenderedLayout(context, components) ==
  components \o NestedPlaceholders(context.layout.placeholders,
                                   RootPath(context))

\* option 3: the components of the context
FromContextComponents(context, components) ==
  LET Pushed(parsed) ==
        IF parsed.thrown THEN Threw ELSE Gave(components \o parsed.value)
  IN  Pushed(ContextComponentsFrom(context.components.items, 0,
                                   RootPath(context)))

\* the conditions under which the options are entered
HasPresentationDetails(context) ==
  /\ context.pageInfo.kind = "object"
  /\ context.pageInfo.presentationDetails.kind # "null"

HasRenderedLayout(context) == context.layout.kind = "object"

HasContextComponents(context) == context.components.kind = "array"

\* extractComponentsFromLayout with every option entered whose data is there
extractComponentsFromLayout_everyForm(context) ==
  LET Third(components) ==
        IF HasContextComponents(context)
          THEN FromContextComponents(context, components)
        ELSE Gave(components)
      Second(components) ==
        Third(IF HasRenderedLayout(context)
                THEN FromRenderedLayout(context, components)
              ELSE components)
  IN  Second(IF HasPresentationDetails(context)
               THEN FromPresentationDetails(context, <<>>)
             ELSE <<>>)

\* extractComponentsFromLayout
extractComponentsFromLayout(context) ==
  LET Third(components) ==
        IF Len(components) = 0 /\ HasContextComponents(context)
          THEN FromContextComponents(context, components)
        ELSE Gave(components)
      Second(components) ==
        Third(IF Len(components) = 0 /\ HasRenderedLayout(context)
                THEN FromRenderedLayout(context, components)
              ELSE components)
  IN  Second(IF HasPresentationDetails(context)
               THEN FromPresentationDetails(context, <<>>)
             ELSE <<>>)

\* extractPageContentFromContext
extractPageContentFromContext(context) ==
  LET Page(components) ==
        IF components.thrown THEN Threw
        ELSE Gave(<< [ itemId     |-> OrEmpty(context.pageInfo.id),
                       name       |-> OrElse(context.pageInfo.name,
                                             <<"U","n","t","i","t","l","e","d"," ","P","a","g","e">>),
                       language   |-> OrElse(context.pageInfo.language, <<"e","n">>),
                       path       |-> OrElse(context.pageInfo.path, <<"/">>),
                       components |-> components.value ] >>)
  IN  IF context.pageInfo.kind = "null" THEN Threw
      ELSE Page(extractComponentsFromLayout(context))

-----------------------------------------------------------------------------
(* Normalization of one Pages context                                      *)

\* the components array of a context has at most MaxRoots elements
MaxRoots == 2

\* the lists over S of at most n elements
RECURSIVE ListsUpTo(_, _)
ListsUpTo(S, n) ==
  IF n = 0 THEN { <<>> }
  ELSE { <<>> } \cup { <<x>> \o rest : x \in S, rest \in ListsUpTo(S, n - 1) }

\* entries of component.fields
StringEntry(name, str) ==
  [ name |-> name, kind |-> "string", str |-> str, type |-> Undefined ]
ValueEntry(name, str, type) ==
  [ name |-> name, kind |-> "valueObject", str |-> str, type |-> type ]
SrcEntry(name, src) ==
  [ name |-> name, kind |-> "srcObject", str |-> src, type |-> Undefined ]
HrefEntry(name, href) ==
  [ name |-> name, kind |-> "hrefObject", str |-> href, type |-> Undefined ]
NumberSrcEntry(name) ==
  [ name |-> name, kind |-> "numberSrc", str |-> <<>>, type |-> Undefined ]

\* a raw component: null, or an object
NullComponent ==
  [ kind |-> "null", componentName |-> Absent, name |-> Absent,
    displayName |-> Absent, uid |-> Absent, id |-> Absent, key |-> Absent,
    dataSource |-> Absent, datasourceId |-> Absent, params |-> Absent,
    parameters |-> Absent, fields |-> <<>>, placeholders |-> <<>>,
    children |-> <<>> ]

RawComponent(componentName, uid, fields, placeholders, children) ==
  [ NullComponent EXCEPT !.kind = "object",
                         !.componentName = componentName,
                         !.uid = uid,
                         !.fields = fields,
                         !.placeholders = placeholders,
                         !.children = children ]

\* a hero with a title, a broken image and a teaser; a promo without name,
\* without uid and with fields that are skipped
HeroComponent ==
  RawComponent(<<"H","e","r","o">>, <<"h","1">>,
               << StringEntry(<<"T","i","t","l","e">>, <<"W","e","l","c","o","m","e">>), NumberSrcEntry(<<"I","m","a","g","e">>),
                  ValueEntry(<<"T","e","a","s","e","r">>, <<"R","e","a","d"," ","m","o","r","e">>, "Single-Line Text") >>,
               <<>>, <<>>)

PromoComponent ==
  RawComponent(Absent, Absent,
               << StringEntry(<<"u","i","d">>, <<"p","1">>), StringEntry(<<"N","o","t","e">>, <<" "," ">>),
                  StringEntry(<<"B","o","d","y">>, <<"T","e","x","t">>) >>,
               <<>>, <<>>)

\* a grid whose children array holds a null, and a section whose placeholder
\* holds a null
GridComponent ==
  RawComponent(<<"G","r","i","d">>, <<"g","1">>, <<>>, <<>>,
               <<HeroComponent, NullComponent, PromoComponent>>)

SectionComponent ==
  RawComponent(<<"S","e","c","t","i","o","n">>, Absent, <<>>,
               << [ key |-> <<"c","o","l">>,
                    components |-> <<NullComponent, HeroComponent>> ] >>,
               <<>>)

\* a teaser without uid, with a text, a link object and an image object, and
\* with a promo as its only child
TeaserComponent ==
  RawComponent(<<"T","e","a","s","e","r">>, Absent,
               << StringEntry(<<"B","o","d","y">>, <<"I","n","t","r","o">>), HrefEntry(<<"L","i","n","k">>, <<"/","a","b","o","u","t">>),
                  SrcEntry(<<"I","m","a","g","e">>, <<"/","i","m","g","/","a",".","p","n","g">>) >>,
               <<>>, <<PromoComponent>>)

RawComponentInputs ==
  { NullComponent, HeroComponent, PromoComponent, GridComponent,
    SectionComponent, TeaserComponent }

\* a rendering of presentationDetails: null, or an object
NullRendering ==
  [ kind |-> "null", instanceId |-> Absent, id |-> Absent,
    placeholderKey |-> Absent, dataSource |-> Absent,
    renderingName |-> Absent, parameters |-> Absent ]

HeroRendering ==
  [ NullRendering EXCEPT !.kind = "object", !.instanceId = <<"r","1">>,
                         !.dataSource = <<"l","o","c","a","l",":","/","D","a","t","a","/","H","e","r","o","/","H","e","r","o"," ","1">> ]

PromoRendering ==
  [ NullRendering EXCEPT !.kind = "object", !.renderingName = <<"P","r","o","m","o">> ]

\* the devices of presentationDetails, each with its array of renderings
DevicesInputs ==
  { << [ renderings |-> <<HeroRendering, PromoRendering>> ] >>,
    << [ renderings |-> <<HeroRendering, NullRendering, PromoRendering>> ] >>,
    << [ renderings |-> <<NullRendering>> ] >>,
    << [ renderings |-> <<HeroRendering>> ],
       [ renderings |-> <<NullRendering, PromoRendering>> ],
       [ renderings |-> <<PromoRendering>> ] >>,
    << [ renderings |-> <<PromoRendering, NullRendering>> ],
       [ renderings |-> <<HeroRendering>> ] >>,
    << [ renderings |-> <<>> ] >> }

\* presentationDetails: not set, a string that is no JSON, or devices
PresentationInputs ==
  { [ kind |-> "null", devices |-> <<>> ],
    [ kind |-> "malformed", devices |-> <<>> ] }
    \cup { [ kind |-> "object", devices |-> devices ] :
             devices \in DevicesInputs }

\* pageInfo: not set, or an object with or without id
NoPageInfo ==
  [ kind |-> "null", id |-> Absent, name |-> Absent, language |-> Absent,
    path |-> Absent, presentationDetails |-> [ kind |-> "null",
                                               devices |-> <<>> ] ]

PageInfoInputs ==
  { NoPageInfo }
    \cup { [ NoPageInfo EXCEPT !.kind = "object", !.id = id, !.name = <<"H","o","m","e">>,
                               !.presentationDetails = details ] :
             id \in {Absent, <<"p","a","g","e","-","1">>}, details \in PresentationInputs }

\* layout.rendered: not set, or a route with placeholders
LayoutInputs ==
  { [ kind |-> "null", placeholders |-> <<>> ],
    [ kind |-> "object", placeholders |-> <<>> ],
    [ kind |-> "object",
      placeholders |-> << [ key |-> <<"m","a","i","n">>,
                            components |-> <<HeroComponent, NullComponent,
                                             PromoComponent>> ] >> ],
    [ kind |-> "object",
      placeholders |-> << [ key |-> <<"h","e","a","d","e","r">>, components |-> <<>> ],
                          [ key |-> <<"m","a","i","n">>,
                            components |-> <<NullComponent>> ] >> ],
    [ kind |-> "object",
      placeholders |-> << [ key |-> <<"h","e","a","d","e","r">>,
                            components |-> <<GridComponent>> ],
                          [ key |-> <<"m","a","i","n">>,
                            components |-> <<SectionComponent>> ] >> ] }

\* components: not set, or an array
ContextComponentsInputs ==
  { [ kind |-> "null", items |-> <<>> ] }
    \cup { [ kind |-> "array", items |-> items ] :
             items \in ListsUpTo(RawComponentInputs, MaxRoots) }

InitNormalize ==
  /\ pc = "normalize"
  /\ pagesContext \in [ pageInfo   : PageInfoInputs,
                        layout     : LayoutInputs,
                        components : ContextComponentsInputs ]
  /\ pageContent = Idle
  /\ semanticItems = Idle
  /\ fieldName = Idle
  /\ fieldValue = Idle
  /\ fieldType = Idle
  /\ templateName = Idle
  /\ category = Idle
  /\ pageData = Idle
  /\ scanResult = Idle
  /\ datasourceField = Idle
  /\ fieldInfo = Idle
  /\ searchBox = Idle

\* extractPageContentFromContext returns the page content or throws
ExtractPageContentFromContext ==
  LET Done(outcome) ==
        /\ pc' = IF outcome.thrown THEN "aborted" ELSE "normalized"
        /\ pageContent' = IF outcome.thrown THEN Idle ELSE outcome.value[1]
  IN  /\ pc = "normalize"
      /\ Done(extractPageContentFromContext(pagesContext))
      /\ UNCHANGED <<fieldName, fieldValue, fieldType, templateName, category,
                     semanticItems, pageData, scanResult, datasourceField,
                     fieldInfo, pagesContext, searchBox>>

NextNormalize == ExtractPageContentFromContext

SpecNormalize == InitNormalize /\ [][NextNormalize]_vars

-----------------------------------------------------------------------------
(* Properties of the normalization                                         *)

\* the form a root component was parsed from: 1 for a rendering of
\* presentationDetails, 2 for a component of a route placeholder, 3 for a
\* component of the components array
FormOf(root) ==
  IF root.type = <<"R","e","n","d","e","r","i","n","g">> THEN 1
  ELSE IF root.placeholder # Absent THEN 2
  ELSE 3

\* the roots that a form yields on its own; the third form may throw
FormRoots(context, form) ==
  IF form = 1
    THEN IF HasPresentationDetails(context)
           THEN FromPresentationDetails(context, <<>>)
         ELSE <<>>
  ELSE IF form = 2
    THEN IF HasRenderedLayout(context)
           THEN FromRenderedLayout(context, <<>>)
         ELSE <<>>
  ELSE IF HasContextComponents(context)
    THEN Caught(FromContextComponents(context, <<>>))
  ELSE <<>>

\* C16: the forms are tried in the order 1, 2, 3; the roots returned all come
\* from one form, they are all the roots of that form, and every earlier form
\* yielded no root.  A throw of the third form is seen only if the first two
\* yielded no root.
C16_OneFormInOrder ==
  LET Chosen(roots, form) ==
        /\ \A i \in 1..Len(roots) : FormOf(roots[i]) = form
        /\ roots = FormRoots(pagesContext, form)
        /\ \A earlier \in 1..(form - 1) :
             FormRoots(pagesContext, earlier) = <<>>
      AllOf(roots) ==
        IF Len(roots) = 0
          THEN \A form \in 1..3 : FormRoots(pagesContext, form) = <<>>
        ELSE Chosen(roots, FormOf(roots[1]))
  IN  /\ pc = "normalized" => AllOf(pageContent.components)
      /\ (pc = "aborted" /\ pagesContext.pageInfo.kind = "object")
           => \A earlier \in 1..2 : FormRoots(pagesContext, earlier) = <<>>

\* the device form yielded nothing, the placeholder form yielded the roots,
\* and the components array, which holds components, was not consulted
C16_Witness ==
  /\ pc = "normalized"
  /\ HasPresentationDetails(pagesContext)
  /\ HasRenderedLayout(pagesContext)
  /\ HasContextComponents(pagesContext)
  /\ Len(FormRoots(pagesContext, 3)) > 0
  /\ Len(pageContent.components) = 2
  /\ \A i \in 1..2 : FormOf(pageContent.components[i]) = 2

\* the components of a list that are not null, each parsed at its own index
RECURSIVE ParsedSiblings(_, _, _, _)
ParsedSiblings(components, parentPath, index, placeholderKey) ==
  IF index >= Len(components) THEN <<>>
  ELSE (IF components[index + 1].kind = "null" THEN <<>>
        ELSE parseComponent(components[index + 1], parentPath, index,
                            placeholderKey).value)
         \o ParsedSiblings(components, parentPath, index + 1, placeholderKey)

\* the renderings of all devices that are not null, each parsed at its own
\* index
RECURSIVE ParsedRenderings(_, _, _)
ParsedRenderings(devices, parentPath, idx) ==
  IF Len(devices) = 0 THEN <<>>
  ELSE IF idx >= Len(devices[1].renderings)
    THEN ParsedRenderings(Tail(devices), parentPath, 0)
  ELSE (IF devices[1].renderings[idx + 1].kind = "null" THEN <<>>
        ELSE parseRenderingFromPresentationDetails(
               devices[1].renderings[idx + 1], idx, parentPath).value)
         \o ParsedRenderings(devices, parentPath, idx + 1)

\* C19: a raw node that cannot be parsed is left out and nothing else is: the
\* normalization does not abort, and the roots of the device form and of the
\* components array are the parsed siblings that are not null, in their
\* order.
C19_OnlyFailedNodeOmitted ==
  ( /\ pc \in {"normalized", "aborted"}
    /\ pagesContext.pageInfo.kind = "object" )
  => /\ pc = "normalized"
     /\ pagesContext.pageInfo.presentationDetails.kind = "object"
          => FormRoots(pagesContext, 1)
               = ParsedRenderings(
                   pagesContext.pageInfo.presentationDetails.devices,
                   RootPath(pagesContext), 0)
     /\ ( /\ FormRoots(pagesContext, 1) = <<>>
          /\ FormRoots(pagesContext, 2) = <<>>
          /\ HasContextComponents(pagesContext) )
          => pageContent.components
               = ParsedSiblings(pagesContext.components.items,
                                RootPath(pagesContext), 0, Absent)

\* C20: the normalization aborts if and only if the identifier of the root
\* item is missing.
C20_AbortIffNoRootId ==
  pc \in {"normalized", "aborted"}
  => ( pc = "aborted"
       <=> \/ pagesContext.pageInfo.kind = "null"
           \/ ~Truthy(pagesContext.pageInfo.id) )

-----------------------------------------------------------------------------
(* SearchBox.tsx: the debounced search input                               *)

\* debounceMs, counted in ticks of the clock
DebounceTicks == 2

\* the input is changed or cleared at most MaxChanges times
MaxChanges == 3

\* the values typed into the input, and the initialValue prop
InputValues == {"", "t", "te", "test"}
InitialValues == {"", "te"}

\* no timeout is pending
NoTimer == -1

\* useEffect(() => { const timer = setTimeout(...); return () =>
\* clearTimeout(timer) }, [value, debounceMs]): when value changed in a
\* render, the pending timeout is cleared and a new one is set that carries
\* the new value; otherwise the pending timeout stays
DebounceEffect(box, value) ==
  IF value # box.value
    THEN [ timer |-> DebounceTicks, timerValue |-> value, sinceChange |-> 0 ]
  ELSE [ timer |-> box.timer, timerValue |-> box.timerValue,
         sinceChange |-> box.sinceChange ]

\* useEffect(() => { onSearch(debouncedValue) }, [debouncedValue, onSearch]):
\* with the same onSearch, the effect runs when debouncedValue changed
SearchEffect(box, debouncedValue) ==
  IF debouncedValue # box.debouncedValue
    THEN Append(box.calls, debouncedValue)
  ELSE box.calls

\* a render after setValue(value) and setDebouncedValue(debouncedValue): a
\* state that is set to its own value changes nothing
Rerender(box, value, debouncedValue) ==
  LET With(debounce) ==
        [ box EXCEPT !.value = value,
                     !.debouncedValue = debouncedValue,
                     !.timer = debounce.timer,
                     !.timerValue = debounce.timerValue,
                     !.sinceChange = debounce.sinceChange,
                     !.calls = SearchEffect(box, debouncedValue) ]
  IN  With(DebounceEffect(box, value))

InitSearch ==
  /\ pc = "search"
  /\ searchBox \in { [ mounted |-> FALSE, value |-> initialValue,
                       debouncedValue |-> initialValue, timer |-> NoTimer,
                       timerValue |-> initialValue, sinceChange |-> 0,
                       changes |-> 0, clears |-> 0, calls |-> <<>> ] :
                     initialValue \in InitialValues }
  /\ fieldName = Idle
  /\ fieldValue = Idle
  /\ fieldType = Idle
  /\ templateName = Idle
  /\ category = Idle
  /\ pageContent = Idle
  /\ semanticItems = Idle
  /\ pageData = Idle
  /\ scanResult = Idle
  /\ datasourceField = Idle
  /\ fieldInfo = Idle
  /\ pagesContext = Idle

SearchUnchanged ==
  UNCHANGED <<pc, fieldName, fieldValue, fieldType, templateName, category,
              pageContent, semanticItems, pageData, scanResult,
              datasourceField, fieldInfo, pagesContext>>

\* the first render: both effects run after the commit
Render ==
  /\ ~searchBox.mounted
  /\ searchBox' = [ searchBox EXCEPT
                      !.mounted = TRUE,
                      !.timer = DebounceTicks,
                      !.timerValue = searchBox.value,
                      !.calls = Append(@, searchBox.debouncedValue) ]
  /\ SearchUnchanged

\* handleChange: the input is given a value other than the one it shows
HandleChange ==
  /\ searchBox.mounted
  /\ searchBox.changes + searchBox.clears < MaxChanges
  /\ \E value \in InputValues \ {searchBox.value} :
       searchBox' = [ Rerender(searchBox, value, searchBox.debouncedValue)
                        EXCEPT !.changes = @ + 1 ]
  /\ SearchUnchanged

\* handleClear: the clear button is shown while value is not empty
HandleClear ==
  /\ searchBox.mounted
  /\ searchBox.value # ""
  /\ searchBox.changes + searchBox.clears < MaxChanges
  /\ searchBox' = [ Rerender(searchBox, "", "") EXCEPT !.clears = @ + 1 ]
  /\ SearchUnchanged

\* one tick of the clock passes while a timeout is pending and not yet due
Tick ==
  /\ searchBox.mounted
  /\ searchBox.timer > 0
  /\ searchBox' = [ searchBox EXCEPT
                      !.timer = @ - 1,
                      !.sinceChange = IF @ < DebounceTicks THEN @ + 1 ELSE @ ]
  /\ SearchUnchanged

\* the timeout is due: setDebouncedValue(value) with the value of the render
\* that set it
TimerFires ==
  /\ searchBox.mounted
  /\ searchBox.timer = 0
  /\ searchBox' = [ Rerender(searchBox, searchBox.value,
                             searchBox.timerValue)
                      EXCEPT !.timer = NoTimer ]
  /\ SearchUnchanged

NextSearch ==
  \/ Render
  \/ HandleChange
  \/ HandleClear
  \/ Tick
  \/ TimerFires

SpecSearch == InitSearch /\ [][NextSearch]_vars

\* the input was changed, never cleared, since the SearchBox was rendered
OnlyChanged == searchBox.mounted /\ searchBox.changes > 0 /\ searchBox.clears = 0

\* the debounce delay has elapsed since the last change and the timeout that
\* the change set has run
DelayElapsed == searchBox.sinceChange = DebounceTicks /\ searchBox.timer = NoTimer

\* C21: after the input was changed, onSearch is not called before the
\* debounce delay has elapsed since the last change, and once it has elapsed
\* onSearch has been called exactly once, with the final input value.
C21_Debounced ==
  OnlyChanged
  => IF DelayElapsed THEN searchBox.calls = <<searchBox.value>>
     ELSE searchBox.calls = <<>>

-----------------------------------------------------------------------------
(* Scoring pages that differ in their links only                           *)

\* the scored link lists hold at most MaxLinkRun links
MaxLinkRun == 3

\* a PageLink of the Hero component
LinkWith(text, href, isPlaceholder, isBroken) ==
  [ text |-> text, href |-> href, isPlaceholder |-> isPlaceholder,
    isBroken |-> isBroken, componentId |-> <<"c","1">>, componentName |-> <<"H","e","r","o">>,
    fieldName |-> <<"L","i","n","k">>, path |-> <<<<"H","o","m","e">>, <<"H","e","r","o">>>> ]

\* links as the scanner flags them (a placeholder, a placeholder with a
\* fragment, a valid and a malformed one) and links that only another
\* producer of PageData can hold: a placeholder that is not flagged, and
\* links with an empty and with a blank href
FlaggedLinkInputs ==
  { LinkWith(<<"C","l","i","c","k">>, <<"#">>, TRUE, TRUE),
    LinkWith(<<"M","o","r","e">>, <<"h","t","t","p",":","/","/","#","m","o","r","e">>, TRUE, TRUE),
    LinkWith(<<"A","b","o","u","t">>, <<"/","a","b","o","u","t">>, FALSE, FALSE),
    LinkWith(<<"D","o","c","s">>, <<"o","u","r"," ","d","o","c","s">>, FALSE, TRUE),
    LinkWith(<<"H","e","r","e">>, <<"#">>, FALSE, FALSE),
    LinkWith(<<"G","o","n","e">>, <<>>, FALSE, TRUE),
    LinkWith(<<"B","l","a","n","k">>, <<" "," ">>, TRUE, FALSE) }

LinkRunInputs == UNION { [1..n -> FlaggedLinkInputs] : n \in 0..MaxLinkRun }

\* a page with a title, a description, an h1 and the given images and links
PageWith(images, links) ==
  [ metadata   |-> [ title |-> <<"W","e","l","c","o","m","e">>, description |-> <<"A"," ","s","h","o","r","t"," ","d","e","s","c","r","i","p","t","i","o","n",".">> ],
    headings   |-> [ h1 |-> <<"H","e","l","l","o">>, h2 |-> <<>>, h3 |-> <<>>, all |-> <<<<"H","e","l","l","o">>>> ],
    text       |-> <<"b","o","d","y">>,
    images     |-> images,
    links      |-> links,
    wordCount  |-> 250,
    components |-> <<>>,
    metrics    |-> [ wordCount |-> 250,
                     characterCount |-> 4,
                     paragraphCount |-> 1,
                     headingCount |-> 1,
                     linkCount |-> Len(links),
                     imageCount |-> Len(images),
                     readability |-> [ score |-> 72 ] ] ]

InitIssues ==
  /\ pc = "scanned"
  /\ pageData \in { PageWith(<<>>, links) : links \in LinkRunInputs }
  /\ scanResult = Idle
  /\ datasourceField = Idle
  /\ fieldInfo = Idle
  /\ pagesContext = Idle
  /\ searchBox = Idle
  /\ pageContent = Idle
  /\ semanticItems = Idle
  /\ fieldName = Idle
  /\ fieldValue = Idle
  /\ fieldType = Idle
  /\ templateName = Idle
  /\ category = Idle

SpecIssues == InitIssues /\ [][NextScore]_vars

-----------------------------------------------------------------------------
(* Scoring pages with many images and links                                *)

\* the large pages hold at most MaxValid images with a usable alt text and
\* as many valid links
MaxValid == 50

\* a PageImage of the Hero component
ImageWith(alt) ==
  [ id |-> <<"c","1","-","I","m","a","g","e">>, alt |-> alt, src |-> <<"a",".","p","n","g">>,
    componentId |-> <<"c","1">>, componentName |-> <<"H","e","r","o">>, fieldName |-> <<"I","m","a","g","e">>,
    path |-> <<<<"H","o","m","e">>, <<"H","e","r","o">>>> ]

\* n times the first element followed by m times the second
Run(n, first, m, second) ==
  [k \in 1..(n + m) |-> IF k <= n THEN first ELSE second]

\* pages with up to MaxValid valid images and links, with and without one
\* image whose alt text is too short and one placeholder link
LargePageInputs ==
  { PageWith(Run(n, ImageWith(<<"A"," ","n","i","c","e"," ","p","h","o","t","o">>), weak, ImageWith(<<"P","i","c">>)),
             Run(n, LinkWith(<<"A","b","o","u","t">>, <<"/","a","b","o","u","t">>, FALSE, FALSE),
                 placeholders, LinkWith(<<"C","l","i","c","k">>, <<"#">>, TRUE, TRUE))) :
      n \in 0..MaxValid, weak \in 0..1, placeholders \in 0..1 }

InitLargePage ==
  /\ pc = "scanned"
  /\ pageData \in LargePageInputs
  /\ scanResult = Idle
  /\ datasourceField = Idle
  /\ fieldInfo = Idle
  /\ pagesContext = Idle
  /\ searchBox = Idle
  /\ pageContent = Idle
  /\ semanticItems = Idle
  /\ fieldName = Idle
  /\ fieldValue = Idle
  /\ fieldType = Idle
  /\ templateName = Idle
  /\ category = Idle

SpecLargePage == InitLargePage /\ [][NextScore]_vars

-----------------------------------------------------------------------------
(* The metadata of a page, taken from lists of description candidates      *)

\* the lists that the metadata is taken from hold at most MaxCandidates items
MaxCandidates == 2

\* the items that these lists are drawn from: descriptions with 'meta' in
\* the name, a summary longer than the cut, a short description with markup,
\* an empty one, items that are no candidates by name or by category, and
\* titles
CandidateInputs ==
  { ItemOf(<<"c","2">>, <<"T","e","x","t">>, <<"M","e","t","a","D","e","s","c","r","i","p","t","i","o","n">>, "Paragraph",
           <<"F","i","n","d"," ","t","h","e"," ","b","e","s","t"," ","d","e","a","l","s"," ","h","e","r","e",".">>),
    ItemOf(<<"c","2">>, <<"T","e","x","t">>, <<"S","e","o","M","e","t","a">>, "RichText", <<"<","p",">","D","e","a","l","s"," ","&","a","m","p",";"," ","o","f","f","e","r","s","<","/","p",">">>),
    ItemOf(<<"c","2">>, <<"T","e","x","t">>, <<"S","u","m","m","a","r","y">>, "Paragraph",
           <<"O","u","r"," ","s","u","m","m","e","r"," ","s","a","l","e"," ","b","r","i","n","g","s"," ","t","h","e"," ","b","e","s","t"," ","d","e","a","l","s"," ","o","n"," ","s","h","o","e","s",","," ","b","a","g","s"," ","a","n","d"," ","c","o","a","t","s"," ","f","o","r"," ","t","h","e"," ","w","h","o","l","e"," ","f","a","m","i","l","y",","," ","w","i","t","h"," ","f","r","e","e"," ","d","e","l","i","v","e","r","y"," ","o","n"," ","e","v","e","r","y"," ","o","r","d","e","r"," ","a","n","d"," ","e","a","s","y"," ","r","e","t","u","r","n","s"," ","i","n"," ","a","l","l"," ","o","f"," ","o","u","r"," ","s","h","o","p","s"," ","u","n","t","i","l"," ","t","h","e"," ","e","n","d"," ","o","f"," ","A","u","g","u","s","t",".">>),
    ItemOf(<<"c","2">>, <<"T","e","x","t">>, <<"D","e","s","c","r","i","p","t","i","o","n">>, "RichText", <<"<","p",">","S","h","o","e","s"," ","a","n","d"," ","<","b",">","b","a","g","s","<","/","b",">","<","/","p",">"," ">>),
    ItemOf(<<"c","2">>, <<"T","e","x","t">>, <<"S","h","o","r","t","D","e","s","c","r","i","p","t","i","o","n">>, "Paragraph", <<" "," ">>),
    ItemOf(<<"c","2">>, <<"T","e","x","t">>, <<"C","o","n","t","e","n","t">>, "Paragraph", <<"T","h","e"," ","c","a","t"," ","s","a","t"," ","o","n"," ","t","h","e"," ","m","a","t",".">>),
    ItemOf(<<"c","1">>, <<"H","e","r","o">>, <<"S","u","m","m","a","r","y">>, "Heading", <<"I","n"," ","s","h","o","r","t">>),
    ItemOf(<<"c","1">>, <<"H","e","r","o">>, <<"M","e","t","a","d","a","t","a">>, "Label", <<"s","e","o">>),
    ItemOf(<<"c","1">>, <<"H","e","r","o">>, <<"T","i","t","l","e">>, "Heading", <<"W","e","l","c","o","m","e">>),
    ItemOf(<<"c","1">>, <<"H","e","r","o">>, <<"M","e","t","a","T","i","t","l","e">>, "Label", <<" ","H","o","m","e"," ","p","a","g","e"," ">>) }

CandidateListInputs ==
  UNION { [1..n -> CandidateInputs] : n \in 0..MaxCandidates }

InitMetadata ==
  /\ pc = "metadata"
  /\ pageContent = [ itemId |-> <<"p","a","g","e","-","1","2","3">>, name |-> <<"H","o","m","e">>, language |-> <<"e","n">>,
                     path |-> <<"/">>, components |-> <<>> ]
  /\ semanticItems \in CandidateListInputs
  /\ pageData = Idle
  /\ scanResult = Idle
  /\ datasourceField = Idle
  /\ fieldInfo = Idle
  /\ pagesContext = Idle
  /\ searchBox = Idle
  /\ fieldName = Idle
  /\ fieldValue = Idle
  /\ fieldType = Idle
  /\ templateName = Idle
  /\ category = Idle

\* the metadata step of scanPageContent
ExtractMetadata ==
  /\ pc = "metadata"
  /\ pageData' = [ metadata |-> extractMetadata(pageContent, semanticItems) ]
  /\ pc' = "described"
  /\ UNCHANGED <<datasourceField, fieldInfo, pagesContext, searchBox>>
  /\ UNCHANGED <<fieldName, fieldValue, fieldType, templateName, category,
                 pageContent, semanticItems, scanResult>>

NextMetadata == ExtractMetadata

SpecMetadata == InitMetadata /\ [][NextMetadata]_vars

-----------------------------------------------------------------------------
(* Claims about the scanner, checked on the scanned pages                  *)

\* the plain text that extractHeadings files a Heading item under
HeadingText(item) == Trim(extractPlainText(item.text))

\* the Heading items of the scanned list whose field name hints at a level
HintedHeadings(level) ==
  { k \in 1..Len(semanticItems) :
      /\ semanticItems[k].category = "Heading"
      /\ Len(HeadingText(semanticItems[k])) > 0
      /\ NameIncludes(semanticItems[k], level) }

\* C22: a Heading item with non-empty text whose field name hints at h2 or
\* h3 is filed in the list of that level, whatever Heading items were
\* processed before it
C22_HintedLevelKept ==
  pc # "scan" =>
    /\ \A k \in HintedHeadings(<<"h","2">>) :
         HeadingText(semanticItems[k]) \in Range(pageData.headings.h2)
    /\ \A k \in HintedHeadings(<<"h","3">>) :
         HeadingText(semanticItems[k]) \in Range(pageData.headings.h3)

\* whether href starts with one of the relative-path prefixes
IsRelativeHref(href) ==
  StartsWith(href, <<"/">>) \/ StartsWith(href, <<".","/">>) \/ StartsWith(href, <<".",".","/">>)

\* whether href holds one of the script calls that are always reported
IsScriptHref(href) ==
  Includes(href, <<"j","a","v","a","s","c","r","i","p","t",":","v","o","i","d","(","0",")">>) \/ Includes(href, <<"j","a","v","a","s","c","r","i","p","t",":",";">>)

\* whether href holds a space, a line feed or a tab
HasWhiteSpace(href) ==
  Includes(href, <<" ">>) \/ Includes(href, <<"\n">>) \/ Includes(href, <<"\t">>)

\* the links of the scanned page
ScannedLinks == IF pc = "scan" THEN {} ELSE Range(pageData.links)

\* C23 as stated: a link whose href starts with '/', './' or '../' is never
\* flagged isBroken, and any other href is flagged isBroken only if it fails
\* URL parsing and holds white space
C23_BrokenOnlyMalformed ==
  \A link \in ScannedLinks :
    /\ IsRelativeHref(link.href) => ~link.isBroken
    /\ (~IsRelativeHref(link.href) /\ link.isBroken)
         => (~UrlParses(link.href) /\ HasWhiteSpace(link.href))

\* C23: placeholder hrefs and hrefs that hold a script call are always
\* flagged isBroken; of the other hrefs, one that starts with '/', './' or
\* '../' is never flagged, and any other is flagged only if it fails URL
\* parsing and holds white space
C23_BrokenOnlyMalformedOrPlaceholder ==
  \A link \in ScannedLinks :
    IF IsPlaceholderHref(link.href) \/ IsScriptHref(link.href)
      THEN link.isBroken
    ELSE /\ IsRelativeHref(link.href) => ~link.isBroken
         /\ link.isBroken
              => (~UrlParses(link.href) /\ HasWhiteSpace(link.href))

\* a page with a relative link that is not flagged, a malformed link that is
\* flagged, or a script call under a relative prefix that is flagged
C23_Witness ==
  /\ \E link \in ScannedLinks : IsRelativeHref(link.href) /\ ~link.isBroken
  /\ \E link \in ScannedLinks :
       \/ (link.isBroken /\ ~UrlParses(link.href) /\ HasWhiteSpace(link.href))
       \/ (link.isBroken /\ IsRelativeHref(link.href) /\ IsScriptHref(link.href))

\* the positions of the scanned list that hold a description candidate
DescriptionCandidates ==
  { k \in 1..Len(semanticItems) :
      /\ semanticItems[k].category \in {"Paragraph", "RichText"}
      /\ \/ NameIncludes(semanticItems[k], <<"d","e","s","c","r","i","p","t","i","o","n">>)
         \/ NameIncludes(semanticItems[k], <<"m","e","t","a">>)
         \/ NameIncludes(semanticItems[k], <<"s","u","m","m","a","r","y">>) }

\* the candidates whose field name contains 'meta'
MetaCandidates ==
  { k \in DescriptionCandidates : NameIncludes(semanticItems[k], <<"m","e","t","a">>) }

\* the least element of a non-empty set of positions
First(positions) == CHOOSE k \in positions : \A j \in positions : k <= j

\* the first n characters of text, or all of it when it is shorter
CutTo(text, n) == SubSeq(text, 1, IF Len(text) < n THEN Len(text) ELSE n)

\* C24: the description of the page is the plain text of the first candidate
\* whose field name contains 'meta' when there is one, in full; otherwise the
\* plain text of the first candidate cut to at most 165 characters; and it
\* is absent when there is no candidate
C24_DescriptionChoice ==
  pc = "described" =>
    IF MetaCandidates # {}
      THEN pageData.metadata.description
             = HeadingText(semanticItems[First(MetaCandidates)])
    ELSE IF DescriptionCandidates # {}
      THEN pageData.metadata.description
             = CutTo(HeadingText(semanticItems[First(DescriptionCandidates)]),
                     165)
    ELSE pageData.metadata.description = Absent

\* a page whose description is a candidate without 'meta' that was cut
C24_Witness ==
  /\ pc = "described"
  /\ MetaCandidates = {}
  /\ DescriptionCandidates # {}
  /\ Len(HeadingText(semanticItems[First(DescriptionCandidates)])) > 165
  /\ Len(pageData.metadata.description) = 165

\* the hrefs of the records of a list whose reason is one of reasons
HrefsTagged(details, reasons) ==
  LET tagged == SelectSeq(details, LAMBDA d : d.reason \in reasons)
  IN  [k \in 1..Len(tagged) |-> tagged[k].href]

\* whether the records are records of distinct links, in the order of the
\* links
InLinkOrder(details, links) ==
  \E at \in [1..Len(details) -> 1..Len(links)] :
    /\ \A i, j \in 1..Len(details) : i < j => at[i] < at[j]
    /\ \A i \in 1..Len(details) :
         /\ details[i].href = HrefOrEmpty(links[at[i]])
         /\ details[i].text = links[at[i]].text

\* C25: each link gives at most one record of brokenLinksDetails and its
\* href goes to at most one of placeholderLinks and brokenLinks; the records
\* tagged 'placeholder' are the entries of placeholderLinks, those tagged
\* 'empty' or 'suspected-broken' the entries of brokenLinks, there are as
\* many records as entries of the two lists, and the records keep the order
\* of the links
C25_OneRecordPerFlaggedLink ==
  pc = "scored" =>
    /\ \A i \in 1..Len(scanResult.brokenLinksDetails) :
         scanResult.brokenLinksDetails[i].reason
           \in {"placeholder", "empty", "suspected-broken"}
    /\ HrefsTagged(scanResult.brokenLinksDetails, {"placeholder"})
         = scanResult.issues.placeholderLinks
    /\ HrefsTagged(scanResult.brokenLinksDetails, {"empty", "suspected-broken"})
         = scanResult.issues.brokenLinks
    /\ Len(scanResult.brokenLinksDetails)
         = Len(scanResult.issues.placeholderLinks)
             + Len(scanResult.issues.brokenLinks)
    /\ InLinkOrder(scanResult.brokenLinksDetails, pageData.links)

\* a scored page with a placeholder that is also flagged as broken, a
\* malformed link and a valid link between them
C25_Witness ==
  /\ pc = "scored"
  /\ Len(pageData.links) = 3
  /\ pageData.links[1].isPlaceholder /\ pageData.links[1].isBroken
  /\ ~pageData.links[2].isBroken /\ ~pageData.links[2].isPlaceholder
  /\ pageData.links[2].href = <<"/","a","b","o","u","t">>
  /\ scanResult.issues.placeholderLinks = <<pageData.links[1].href>>
  /\ scanResult.issues.brokenLinks = <<pageData.links[3].href>>
  /\ Len(scanResult.brokenLinksDetails) = 2

\* C28: a full sub-score implies no matching issue: when the page has an
\* image and the accessibility sub-score is 25, weakAltText is not raised,
\* and when the page has a link and the links sub-score is 25, neither
\* placeholderLinks nor brokenLinks is raised
C28_FullScoreNoIssue ==
  pc = "scored" =>
    /\ (Len(pageData.images) >= 1 /\ scanResult.breakdown.accessibility = 25)
         => scanResult.issues.weakAltText = <<>>
    /\ (Len(pageData.links) >= 1 /\ scanResult.breakdown.links = 25)
         => /\ scanResult.issues.placeholderLinks = <<>>
            /\ scanResult.issues.brokenLinks = <<>>
-----------------------------------------------------------------------------
(* Plain text and semantic items of field values made of HTML fragments    *)

\* a field value is made of at most MaxFragments fragments
MaxFragments == 2

\* the fragments: tags, text, a line break, entities, the tail of an entity
\* that an ampersand entity completes, a script block and white space
FragmentInputs ==
  { <<"<","p",">">>, <<"H","e","l","l","o">>, <<"<","/","p",">">>, <<"<","b","r","/",">">>, <<"&","a","m","p",";">>, <<"l","t",";","b","&","g","t",";">>,
    <<"<","s","c","r","i","p","t",">","x","(",")","<","/","s","c","r","i","p","t",">">>, <<" ","&","n","b","s","p",";"," ">> }

RECURSIVE Concat(_)
Concat(parts) ==
  IF Len(parts) = 0 THEN <<>> ELSE parts[1] \o Concat(Tail(parts))

HtmlInputs ==
  { Concat(parts) :
      parts \in UNION { [1..n -> FragmentInputs] : n \in 0..MaxFragments } }

InitPlainText ==
  /\ pc = "html"
  /\ fieldValue \in HtmlInputs
  /\ semanticItems = <<>>
  /\ pageData = Idle
  /\ scanResult = Idle
  /\ datasourceField = Idle
  /\ fieldInfo = Idle
  /\ pagesContext = Idle
  /\ searchBox = Idle
  /\ pageContent = Idle
  /\ fieldName = Idle
  /\ fieldType = Idle
  /\ templateName = Idle
  /\ category = Idle

\* extractPlainText(html)
ExtractPlainText ==
  /\ pc = "html"
  /\ fieldValue' = extractPlainText(fieldValue)
  /\ pc' = "text"
  /\ UNCHANGED <<datasourceField, fieldInfo, pagesContext, searchBox>>
  /\ UNCHANGED <<fieldName, fieldType, templateName, category,
                 pageContent, semanticItems, pageData, scanResult>>

\* createSemanticTextItem(field, metadata, path) for a Rich Text field of
\* the Hero component that holds the value
CreateSemanticTextItem ==
  /\ pc = "html"
  /\ semanticItems' =
       << createSemanticTextItem(
            [ name |-> <<"T","e","x","t">>, value |-> fieldValue, type |-> <<"R","i","c","h"," ","T","e","x","t">>,
              category |-> "RichText" ],
            [ componentName        |-> <<"H","e","r","o">>,
              componentId          |-> <<"c","1">>,
              datasourceItemId     |-> Undefined,
              fieldName            |-> <<"T","e","x","t">>,
              renderingPlaceholder |-> <<"m","a","i","n">>,
              params               |-> Undefined ],
            <<<<"H","o","m","e">>, <<"H","e","r","o">>>>) >>
  /\ pc' = "item"
  /\ UNCHANGED <<datasourceField, fieldInfo, pagesContext, searchBox>>
  /\ UNCHANGED <<fieldName, fieldValue, fieldType, templateName, category,
                 pageContent, pageData, scanResult>>

NextPlainText == ExtractPlainText \/ CreateSemanticTextItem

SpecPlainText == InitPlainText /\ [][NextPlainText]_vars

-----------------------------------------------------------------------------
(* Claims about plain text                                                 *)

\* whether text holds a tag or one of the entities that extractPlainText
\* decodes
HoldsMarkup(text) ==
  \/ Test(TagPattern, text, FALSE)
  \/ \E k \in 1..Len(Entities) : Includes(text, Entities[k][1])

\* C26: the text of the SemanticTextItem created from a field value is the
\* HTML-stripped plain text of the value: it holds no HTML tag (so no script
\* or style block) and none of the entities that are decoded
C26_ItemTextIsPlain ==
  pc = "item" => ~HoldsMarkup(semanticItems[1].text)

\* C30: extractPlainText is idempotent: the plain text of a text that
\* extractPlainText returned is that text
C30_PlainTextIdempotent ==
  pc = "text" => extractPlainText(fieldValue) = fieldValue
-----------------------------------------------------------------------------
(* From the Pages context to the scanned page                              *)

\* extractSemanticItems(realPageContent) of the context panel
ExtractPageItems ==
  /\ pc = "normalized"
  /\ semanticItems' = extractSemanticItems(pageContent)
  /\ pc' = "listed"
  /\ UNCHANGED <<datasourceField, fieldInfo, pagesContext, searchBox>>
  /\ UNCHANGED <<fieldName, fieldValue, fieldType, templateName, category,
                 pageContent, pageData, scanResult>>

\* scanPageContent(pageContent, semanticItems) of the optimizer panel
ScanPageItems ==
  /\ pc = "listed"
  /\ pageData' = scanPageContent(pageContent, semanticItems)
  /\ pc' = "surveyed"
  /\ UNCHANGED <<datasourceField, fieldInfo, pagesContext, searchBox>>
  /\ UNCHANGED <<fieldName, fieldValue, fieldType, templateName, category,
                 pageContent, semanticItems, scanResult>>

NextPipeline == ExtractPageContentFromContext \/ ExtractPageItems \/ ScanPageItems

SpecPipeline == InitNormalize /\ [][NextPipeline]_vars

\* the fields of the components of a list of trees, each with the id of its
\* component
RECURSIVE FieldsOfTrees(_)
FieldsOfTrees(components) ==
  IF Len(components) = 0 THEN <<>>
  ELSE [ k \in 1..Len(components[1].fields) |->
           [ componentId |-> components[1].id,
             field       |-> components[1].fields[k] ] ]
         \o FieldsOfTrees(components[1].children)
         \o FieldsOfTrees(Tail(components))

\* the fields that the normalizer built from the URL of a link object or from
\* the source of an image object
RecognisedFields(cat) ==
  { f \in Range(FieldsOfTrees(pageContent.components)) :
      f.field.category = cat /\ f.field.type = cat /\ Len(f.field.value) > 0 }

\* C27: every Link field built from a non-empty URL and every Image field
\* built from a non-empty source yields exactly one entry of the links of
\* the scanned page, with that URL as href, or of its images, with that
\* source as src
C27_RecognisedFieldsScanned ==
  pc = "surveyed" =>
    /\ \A f \in RecognisedFields("Link") :
         Cardinality({ k \in 1..Len(pageData.links) :
                         /\ pageData.links[k].componentId = f.componentId
                         /\ pageData.links[k].fieldName = f.field.name
                         /\ pageData.links[k].href = f.field.value }) = 1
    /\ \A f \in RecognisedFields("Image") :
         Cardinality({ k \in 1..Len(pageData.images) :
                         /\ pageData.images[k].componentId = f.componentId
                         /\ pageData.images[k].fieldName = f.field.name
                         /\ pageData.images[k].src = f.field.value }) = 1

\* C29: within one extraction no two SemanticTextItems have the same id
C29_ItemIdsDistinct ==
  pc \in {"listed", "surveyed"} =>
    \A i, j \in 1..Len(semanticItems) :
      i # j => semanticItems[i].id # semanticItems[j].id
=============================================================================
